---- MODULE Spec2Model ----
(***************************************************************************)
(* A model of the field-metadata extractor (getFields, Columns) and the    *)
(* handler registry (Register) of meddler.                                 *)
(*                                                                         *)
(* A struct tag is kept as the list of its comma-separated components,     *)
(* which is what strings.Split(tag, ",") returns: the absent tag "" is the *)
(* one-component list <<"">>, "id,pk" is <<"id", "pk">>.  Component 1 is   *)
(* the column-name override, the others are the directives.                *)
(***************************************************************************)
EXTENDS Integers, Sequences, FiniteSets, TLC

VARIABLES
    decl,         \* the struct types the program declares: type id -> reflect.Type
    registry,     \* meddler.go: var registry map[string]Meddler
    fieldsCache,  \* sqlscan.go: var fieldsCache map[reflect.Type]*structData
    ret,          \* what the last call that returned, returned
    gor,          \* the callers: where each stands in its call, and its locals
    crashed,      \* the runtime has stopped the process
    rows,         \* the *sql.Rows a scan reads from
    dst,          \* the value the destination pointer of a scan points to
    out,          \* what the last scan call did and returned
    hook,         \* one field, one handler and one stored value: a write and a read
    db,           \* the database: the statements it received and what it prepared
    stmtCache     \* a *PermStmtCache: its db and its cache

vars == <<decl, registry, fieldsCache, ret, gor, crashed, rows, dst, out, hook, db, stmtCache>>

----------------------------------------------------------------------------
(* Bounds of the model *)

\* the largest number of annotations (column-name overrides, skip markers and
\* directive tokens) in the tags of the struct under test
MaxAnnotations == 2
\* the number of concurrent callers
NumCallers == 2
\* the numbers of fields of the struct under test
FieldCounts == {0, 1, 2}

----------------------------------------------------------------------------
(* Go values *)

\* the empty map
EmptyMap == [k \in {} |-> k]

\* m[k] = v of a Go map
MapPut(m, k, v) == [x \in (DOMAIN m) \cup {k} |-> IF x = k THEN v ELSE m[x]]

\* a nil error, and fmt.Errorf(msg, field, arg)
NoErr == [msg |-> "nil", field |-> "", arg |-> ""]
Errorf(msg, field, arg) == [msg |-> msg, field |-> field, arg |-> arg]

\* a nil *structData
NilData == [columns |-> <<>>, fields |-> EmptyMap, pk |-> "", isNil |-> TRUE]

\* the handlers init() registers
BuiltinRegistry ==
    [n \in {"localtime", "localtimez", "utctime", "utctimez", "zeroisnull", "identity"} |->
        CASE n = "localtime"  -> "TimeMeddler{ZeroIsNull:false,Local:true}"
          [] n = "localtimez" -> "TimeMeddler{ZeroIsNull:true,Local:true}"
          [] n = "utctime"    -> "TimeMeddler{ZeroIsNull:false,Local:false}"
          [] n = "utctimez"   -> "TimeMeddler{ZeroIsNull:true,Local:false}"
          [] n = "zeroisnull" -> "ZeroIsNullMeddler"
          [] n = "identity"   -> "IdentityMeddler"]

\* the kinds reflect.Type.Kind() the pk switch accepts
SignedIntKinds == {"int", "int8", "int16", "int32", "int64"}

----------------------------------------------------------------------------
(* getFields *)

\* the check of a field marked pk, taking every integer kind for an integer
PkErrorAnyInteger(f, pk) ==
    IF f.Kind = "ptr"
    THEN Errorf("primary key is a pointer", f.Name, "")
    ELSE IF f.Kind \notin SignedIntKinds \cup {"uint", "uint8", "uint16", "uint32", "uint64"}
    THEN Errorf("primary key is not an integer type", f.Name, "")
    ELSE IF pk # ""
    THEN Errorf("a primary key field was already found", f.Name, "")
    ELSE NoErr

\* the check of a field marked pk: the error it returns, if any
PkError(f, pk) ==
    IF f.Kind = "ptr"
    THEN Errorf("primary key is a pointer", f.Name, "")
    ELSE IF f.Kind \notin SignedIntKinds
    THEN Errorf("primary key is not an integer type", f.Name, "")
    ELSE IF pk # ""
    THEN Errorf("a primary key field was already found", f.Name, "")
    ELSE NoErr

\* is the token the primary-key marker
IsPkToken(tok) == tok = "pk"

\* a lookup that falls back to the identity handler for an unknown name
LookupMeddlerLenient(reg, tok) ==
    IF tok \in DOMAIN reg THEN [present |-> TRUE, m |-> reg[tok]]
    ELSE [present |-> TRUE, m |-> reg["identity"]]

\* m, present := registry[tok]
LookupMeddler(reg, tok) ==
    IF tok \in DOMAIN reg THEN [present |-> TRUE, m |-> reg[tok]]
    ELSE [present |-> FALSE, m |-> ""]

\* the first handler token of a field wins
BindMeddlerFirstWins(meddler, m) == IF meddler = "IdentityMeddler" THEN m ELSE meddler

\* the handler of a field after a token that names the registered handler m
BindMeddler(meddler, m) == m

\* the directive loop of one field, from token j on: the pk name and the
\* handler it ends with, or the error it returns
RECURSIVE ScanDirectives(_, _, _, _, _, _)
ScanDirectives(f, name, j, pk, meddler, reg) ==
    IF j > Len(f.Tag) THEN [err |-> NoErr, pk |-> pk, meddler |-> meddler]
    ELSE IF IsPkToken(f.Tag[j]) THEN
        IF PkError(f, pk) # NoErr
        THEN [err |-> PkError(f, pk), pk |-> pk, meddler |-> meddler]
        ELSE ScanDirectives(f, name, j + 1, name, meddler, reg)
    ELSE IF LookupMeddler(reg, f.Tag[j]).present
    THEN ScanDirectives(f, name, j + 1, pk,
                        BindMeddler(meddler, LookupMeddler(reg, f.Tag[j]).m), reg)
    ELSE [err |-> Errorf("meddler is not registered", f.Name, f.Tag[j]),
          pk |-> pk, meddler |-> meddler]

\* the column name of a field: the override when there is one
ColumnName(f) == IF Len(f.Tag) > 0 /\ f.Tag[1] # "" THEN f.Tag[1] ELSE f.Name

\* only unexported fields are left out
SkippedUnexportedOnly(f) == f.PkgPath # ""

\* is the field left out of the mapping: unexported, or marked "-"
Skipped(f) == f.PkgPath # "" \/ (Len(f.Tag) > 0 /\ f.Tag[1] = "-")

\* no column name is ever taken
DuplicateColumnNever(data, name) == FALSE

\* has an earlier field taken the column name
DuplicateColumn(data, name) == name \in DOMAIN data.fields

\* the primary key is put in front of the other columns
AddFieldPkFirst(data, name, i, pk, meddler) ==
    [columns |-> IF name = pk THEN <<name>> \o data.columns ELSE Append(data.columns, name),
     fields  |-> MapPut(data.fields, name,
                    [column     |-> name,
                     primaryKey |-> (name = pk),
                     index      |-> i,
                     meddler    |-> meddler]),
     pk      |-> pk,
     isNil   |-> FALSE]

\* the descriptor of a field and its place in the metadata
AddField(data, name, i, pk, meddler) ==
    [columns |-> Append(data.columns, name),
     fields  |-> MapPut(data.fields, name,
                    [column     |-> name,
                     primaryKey |-> (name = pk),
                     index      |-> i,
                     meddler    |-> meddler]),
     pk      |-> pk,
     isNil   |-> FALSE]

\* the field loop, from field i (1-based here, index i-1 in Go) on
RECURSIVE FieldLoop(_, _, _, _)
FieldLoop(fs, i, data, reg) ==
    IF i > Len(fs) THEN [data |-> data, err |-> NoErr]
    ELSE IF Skipped(fs[i]) THEN FieldLoop(fs, i + 1, data, reg)
    ELSE
        LET f    == fs[i]
            name == ColumnName(f)
            d    == ScanDirectives(f, name, 2, data.pk, reg["identity"], reg)
        IN  IF d.err # NoErr THEN [data |-> NilData, err |-> d.err]
            ELSE IF DuplicateColumn(data, name)
            THEN [data |-> NilData, err |-> Errorf("multiple fields for column", "", name)]
            ELSE FieldLoop(fs, i + 1, AddField(data, name, i - 1, d.pk, d.meddler), reg)

\* new(structData) with its fields map made
NewData == [columns |-> <<>>, fields |-> EmptyMap, pk |-> "", isNil |-> FALSE]

\* the metadata of a type derived afresh (the path after a cache miss)
DeriveFields(type, reg) ==
    IF type.Kind # "ptr"
    THEN [data |-> NilData, err |-> Errorf("non-pointer destination", "", "")]
    ELSE IF type.Elem # "struct"
    THEN [data |-> NilData, err |-> Errorf("pointer to non-struct", "", "")]
    ELSE FieldLoop(type.Fields, 1, NewData, reg)

\* the cache is never hit
CachedNever(t, cache) == FALSE

\* is the metadata of the type in the cache
Cached(t, cache) == t \in DOMAIN cache

\* the result is stored whether the derivation failed or not
StoreFieldsAlways(t, r, cache) == MapPut(cache, t, r.data)

\* the cache after a derivation that returned r
StoreFields(t, r, cache) ==
    IF r.err # NoErr THEN cache ELSE MapPut(cache, t, r.data)

\* what getFields returns and the cache it leaves
GetFieldsResult(t, type, reg, cache) ==
    IF Cached(t, cache)
    THEN [data |-> cache[t], err |-> NoErr, cache |-> cache]
    ELSE LET r == DeriveFields(type, reg)
         IN  [data |-> r.data, err |-> r.err, cache |-> StoreFields(t, r, cache)]

\* the loop of Columns over data.columns
RECURSIVE ColumnsLoop(_, _, _, _)
ColumnsLoop(data, includePk, k, names) ==
    IF k > Len(data.columns) THEN names
    ELSE IF ~includePk /\ data.columns[k] = data.pk
         THEN ColumnsLoop(data, includePk, k + 1, names)
         ELSE ColumnsLoop(data, includePk, k + 1, Append(names, data.columns[k]))

\* Columns(src, includePk): the names, or the error of getFields
Columns(t, type, includePk, reg, cache) ==
    LET r == GetFieldsResult(t, type, reg, cache)
    IN  IF r.err # NoErr
        THEN [names |-> <<>>, err |-> r.err, cache |-> r.cache]
        ELSE [names |-> ColumnsLoop(r.data, includePk, 1, <<>>), err |-> NoErr,
              cache |-> r.cache]

----------------------------------------------------------------------------
(* The types the program declares *)

\* fields a struct can declare: Go names are unique within a struct, and a
\* name is exported (PkgPath empty) exactly when it starts in upper case
DeclFields ==
    { [Name |-> "ID",      PkgPath |-> "",     Kind |-> "int64"],
      [Name |-> "Count",   PkgPath |-> "",     Kind |-> "int8"],
      [Name |-> "Age",     PkgPath |-> "",     Kind |-> "uint"],
      [Name |-> "Ref",     PkgPath |-> "",     Kind |-> "ptr"],
      [Name |-> "private", PkgPath |-> "main", Kind |-> "int64"] }

\* the first component of a tag: none, the skip marker, and a name that is
\* also the declared name of a field
Overrides == {"", "-", "ID"}

\* the directive tokens of a tag
Tokens == {"pk", "zeroisnull", "custom"}

DirectiveSeqs == UNION {[1..k -> Tokens] : k \in 0..MaxAnnotations}

\* the number of annotations of a tag
Annotations(tag) == (IF tag[1] = "" THEN 0 ELSE 1) + (Len(tag) - 1)

\* the tags a field can carry
Tags ==
    {tag \in { <<ov>> \o ds : ov \in Overrides, ds \in DirectiveSeqs } :
        Annotations(tag) <= MaxAnnotations}

RECURSIVE SumAnnotations(_, _)
SumAnnotations(tags, n) ==
    IF n = 0 THEN 0 ELSE Annotations(tags[n]) + SumAnnotations(tags, n - 1)

\* the struct types of n fields
StructsOf(n) ==
    { [i \in 1..n |-> [Name    |-> fs[i].Name,
                       PkgPath |-> fs[i].PkgPath,
                       Kind    |-> fs[i].Kind,
                       Tag     |-> tags[i]]] :
        fs \in {x \in [1..n -> DeclFields] :
                    \A a, b \in 1..n : a # b => x[a].Name # x[b].Name},
        tags \in {y \in [1..n -> Tags] : SumAnnotations(y, n) <= MaxAnnotations} }

PtrTo(fields) == [Kind |-> "ptr", Elem |-> "struct", Fields |-> fields]

\* the types handed to getFields as the type under test
TypeUniverse ==
    { PtrTo(fs) : fs \in UNION {StructsOf(n) : n \in FieldCounts} }
    \cup { [Kind |-> "struct", Elem |-> "", Fields |-> <<>>],
           [Kind |-> "ptr", Elem |-> "int", Fields |-> <<>>] }

\* *Person of the tests
Person ==
    PtrTo(<< [Name |-> "ID",        PkgPath |-> "",     Kind |-> "int64",  Tag |-> <<"id", "pk">>],
             [Name |-> "Name",      PkgPath |-> "",     Kind |-> "string", Tag |-> <<"name">>],
             [Name |-> "private",   PkgPath |-> "main", Kind |-> "int",    Tag |-> <<"">>],
             [Name |-> "Email",     PkgPath |-> "",     Kind |-> "string", Tag |-> <<"">>],
             [Name |-> "Ephemeral", PkgPath |-> "",     Kind |-> "int",    Tag |-> <<"-">>],
             [Name |-> "Age",       PkgPath |-> "",     Kind |-> "int",    Tag |-> <<"", "zeroisnull">>],
             [Name |-> "Opened",    PkgPath |-> "",     Kind |-> "struct", Tag |-> <<"opened", "utctime">>],
             [Name |-> "Closed",    PkgPath |-> "",     Kind |-> "struct", Tag |-> <<"closed", "utctimez">>],
             [Name |-> "Updated",   PkgPath |-> "",     Kind |-> "ptr",    Tag |-> <<"updated", "localtime">>],
             [Name |-> "Height",    PkgPath |-> "",     Kind |-> "ptr",    Tag |-> <<"height">>] >>)

TypeIds == {"T", "Person"}

\* the handlers callers register
Handlers == {"h1", "h2"}

----------------------------------------------------------------------------
(* The operations *)

NoCall == [op |-> "init", arg |-> "", m |-> "", includePk |-> FALSE,
           data |-> NilData, names |-> <<>>, err |-> NoErr]

\* the callers, and a caller that is in no call
Callers == 1..NumCallers
Idle == [pc |-> "idle", t |-> "", name |-> "", m |-> "", data |-> NilData]

InitWith(types) ==
    /\ decl \in {[t \in TypeIds |-> IF t = "Person" THEN Person ELSE ty] : ty \in types}
    /\ registry = BuiltinRegistry
    /\ fieldsCache = EmptyMap
    /\ ret = NoCall
    /\ gor = [g \in Callers |-> Idle]
    /\ crashed = FALSE
    \* no result set, no destination, no scan and no hook under way
    /\ rows = <<>>
    /\ dst = <<>>
    /\ out = <<>>
    /\ hook = <<>>
    /\ db = <<>>
    /\ stmtCache = <<>>

Init == InitWith(TypeUniverse)

\* getFields(reflect.TypeOf(src)) for a src of type t
GetFields(t) ==
    LET r == GetFieldsResult(t, decl[t], registry, fieldsCache)
    IN  /\ fieldsCache' = r.cache
        /\ ret' = [NoCall EXCEPT !.op = "getFields", !.arg = t, !.data = r.data,
                                 !.err = r.err]
        /\ UNCHANGED <<decl, registry, gor, crashed, rows, dst, out, hook, db, stmtCache>>

\* Columns(src, includePk) for a src of type t
CallColumns(t, includePk) ==
    LET r == Columns(t, decl[t], includePk, registry, fieldsCache)
    IN  /\ fieldsCache' = r.cache
        /\ ret' = [NoCall EXCEPT !.op = "Columns", !.arg = t, !.includePk = includePk,
                                 !.names = r.names, !.err = r.err]
        /\ UNCHANGED <<decl, registry, gor, crashed, rows, dst, out, hook, db, stmtCache>>

\* the first registration of a name is kept
RegistryAfterFirstWins(reg, name, m) ==
    IF name = "pk" \/ name \in DOMAIN reg THEN reg ELSE MapPut(reg, name, m)

\* the registry after Register(name, m), which panics for the name pk
\* before it stores anything
RegistryAfter(reg, name, m) == IF name = "pk" THEN reg ELSE MapPut(reg, name, m)

\* Register(name, m)
Register(name, m) ==
    /\ registry' = RegistryAfter(registry, name, m)
    /\ ret' = [NoCall EXCEPT !.op = "Register", !.arg = name, !.m = m,
                 !.err = IF name = "pk"
                         THEN Errorf("panic: pk cannot be used as a meddler name", "", name)
                         ELSE NoErr]
    /\ UNCHANGED <<decl, fieldsCache, gor, crashed, rows, dst, out, hook, db, stmtCache>>

\* one caller, one type under test
Next ==
    \/ GetFields("T")
    \/ \E includePk \in BOOLEAN : CallColumns("T", includePk)
    \/ \E name \in {"pk", "custom"}, m \in Handlers : Register(name, m)

Spec == Init /\ [][Next]_vars

\* the structs of one field with at most one directive, and the two types
\* that are no pointer to a struct
SmallTypes ==
    { PtrTo(fs) : fs \in {x \in StructsOf(1) : Len(x[1].Tag) <= 2} }
    \cup { [Kind |-> "struct", Elem |-> "", Fields |-> <<>>],
           [Kind |-> "ptr", Elem |-> "int", Fields |-> <<>>] }

InitCache == InitWith(SmallTypes)

\* one caller, two types, and re-registration of a built-in name
NextCache ==
    \/ \E t \in TypeIds : GetFields(t)
    \/ \E t \in TypeIds, includePk \in BOOLEAN : CallColumns(t, includePk)
    \/ \E name \in {"pk", "custom", "zeroisnull"}, m \in Handlers : Register(name, m)

SpecCache == InitCache /\ [][NextCache]_vars

----------------------------------------------------------------------------
(* Concurrent callers.  Neither map has a lock: a call is the sequence of  *)
(* its map accesses, and an access lasts from the step that begins it to   *)
(* the step that ends it.                                                  *)

\* the map accesses in progress
ReadsCache(g) == gor[g].pc = "lookup"
WritesCache(g) == gor[g].pc = "store"
ReadsRegistry(g) == gor[g].pc = "scan"
WritesRegistry(g) == gor[g].pc = "register"

\* a map is being written while another caller reads or writes it
Race ==
    \E g, h \in Callers :
        /\ g # h
        /\ \/ WritesCache(g) /\ (ReadsCache(h) \/ WritesCache(h))
           \/ WritesRegistry(g) /\ (ReadsRegistry(h) \/ WritesRegistry(h))

\* what a read of a map may see while writes of it are in progress
CacheViews ==
    {fieldsCache} \cup
    {MapPut(fieldsCache, gor[h].t, gor[h].data) : h \in {x \in Callers : WritesCache(x)}}
RegistryViews ==
    {registry} \cup
    {MapPut(registry, gor[h].name, gor[h].m) : h \in {x \in Callers : WritesRegistry(x)}}

Returned(g) == gor' = [gor EXCEPT ![g] = Idle]

\* getFields is entered and begins its lookup in fieldsCache
GoGetFields(g, t) ==
    /\ ~crashed /\ gor[g].pc = "idle"
    /\ gor' = [gor EXCEPT ![g] = [Idle EXCEPT !.pc = "lookup", !.t = t]]
    /\ UNCHANGED <<decl, registry, fieldsCache, ret, crashed, rows, dst, out, hook, db, stmtCache>>

\* the lookup ends: a hit returns the entry, a miss goes on to derive
EndLookup(g) ==
    /\ ~crashed /\ gor[g].pc = "lookup"
    /\ \E view \in CacheViews :
          IF Cached(gor[g].t, view)
          THEN /\ Returned(g)
               /\ ret' = [NoCall EXCEPT !.op = "getFields", !.arg = gor[g].t,
                                        !.data = view[gor[g].t]]
          ELSE /\ gor' = [gor EXCEPT ![g].pc = "derive"]
               /\ ret' = ret
    /\ UNCHANGED <<decl, registry, fieldsCache, crashed, rows, dst, out, hook, db, stmtCache>>

\* the checks of the type, and the field loop up to its first read of registry
BeginScan(g) ==
    /\ ~crashed /\ gor[g].pc = "derive"
    /\ LET type == decl[gor[g].t]
       IN  IF type.Kind # "ptr" \/ type.Elem # "struct"
           THEN /\ Returned(g)
                /\ ret' = [NoCall EXCEPT !.op = "getFields", !.arg = gor[g].t,
                                         !.err = DeriveFields(type, registry).err]
           ELSE IF \A i \in 1..Len(type.Fields) : Skipped(type.Fields[i])
           THEN /\ gor' = [gor EXCEPT ![g].pc = "store", ![g].data = NewData]
                /\ ret' = ret
           ELSE /\ gor' = [gor EXCEPT ![g].pc = "scan"]
                /\ ret' = ret
    /\ UNCHANGED <<decl, registry, fieldsCache, crashed, rows, dst, out, hook, db, stmtCache>>

\* the field loop ends: an error returns, a success begins to store
EndScan(g) ==
    /\ ~crashed /\ gor[g].pc = "scan"
    /\ \E view \in RegistryViews :
          LET r == DeriveFields(decl[gor[g].t], view)
          IN  IF r.err # NoErr
              THEN /\ Returned(g)
                   /\ ret' = [NoCall EXCEPT !.op = "getFields", !.arg = gor[g].t,
                                            !.err = r.err]
              ELSE /\ gor' = [gor EXCEPT ![g].pc = "store", ![g].data = r.data]
                   /\ ret' = ret
    /\ UNCHANGED <<decl, registry, fieldsCache, crashed, rows, dst, out, hook, db, stmtCache>>

\* the store into fieldsCache ends and getFields returns
EndStore(g) ==
    /\ ~crashed /\ gor[g].pc = "store"
    /\ fieldsCache' = MapPut(fieldsCache, gor[g].t, gor[g].data)
    /\ Returned(g)
    /\ ret' = [NoCall EXCEPT !.op = "getFields", !.arg = gor[g].t, !.data = gor[g].data]
    /\ UNCHANGED <<decl, registry, crashed, rows, dst, out, hook, db, stmtCache>>

\* Register is entered: it panics for pk, begins to store otherwise
GoRegister(g, name, m) ==
    /\ ~crashed /\ gor[g].pc = "idle"
    /\ IF name = "pk"
       THEN /\ gor' = gor
            /\ ret' = [NoCall EXCEPT !.op = "Register", !.arg = name, !.m = m,
                         !.err = Errorf("panic: pk cannot be used as a meddler name", "", name)]
       ELSE /\ gor' = [gor EXCEPT ![g] = [Idle EXCEPT !.pc = "register", !.name = name, !.m = m]]
            /\ ret' = ret
    /\ UNCHANGED <<decl, registry, fieldsCache, crashed, rows, dst, out, hook, db, stmtCache>>

\* the store into registry ends and Register returns
EndRegister(g) ==
    /\ ~crashed /\ gor[g].pc = "register"
    /\ registry' = MapPut(registry, gor[g].name, gor[g].m)
    /\ Returned(g)
    /\ ret' = [NoCall EXCEPT !.op = "Register", !.arg = gor[g].name, !.m = gor[g].m]
    /\ UNCHANGED <<decl, fieldsCache, crashed, rows, dst, out, hook, db, stmtCache>>

\* a racing map access is undefined: besides going on with either value,
\* the runtime may stop the process
Fault ==
    /\ ~crashed /\ Race
    /\ crashed' = TRUE
    /\ UNCHANGED <<decl, registry, fieldsCache, ret, gor, rows, dst, out, hook, db, stmtCache>>

\* a struct that names a handler callers register, and a plain one
ConcTypes ==
    { PtrTo(<< [Name |-> "ID", PkgPath |-> "", Kind |-> "int64",
                Tag |-> <<"id", "pk", "custom">>] >>),
      PtrTo(<< [Name |-> "Name", PkgPath |-> "", Kind |-> "string", Tag |-> <<"">>],
               [Name |-> "private", PkgPath |-> "main", Kind |-> "int", Tag |-> <<"">>] >>),
      PtrTo(<< [Name |-> "private", PkgPath |-> "main", Kind |-> "int", Tag |-> <<"">>] >>),
      [Kind |-> "struct", Elem |-> "", Fields |-> <<>>] }

InitConc == InitWith(ConcTypes)

NextConc ==
    \/ \E g \in Callers, t \in TypeIds : GoGetFields(g, t)
    \/ \E g \in Callers : EndLookup(g)
    \/ \E g \in Callers : BeginScan(g)
    \/ \E g \in Callers : EndScan(g)
    \/ \E g \in Callers : EndStore(g)
    \/ \E g \in Callers, name \in {"pk", "custom"}, m \in Handlers : GoRegister(g, name, m)
    \/ \E g \in Callers : EndRegister(g)
    \/ Fault

SpecConc == InitConc /\ [][NextConc]_vars

----------------------------------------------------------------------------
(* What the claims speak of, stated over the declared types alone *)

\* a field that is mapped to a column: exported and not marked "-"
Mapped(f) == f.PkgPath = "" /\ f.Tag[1] # "-"

\* the column a mapped field stands for
NameOf(f) == IF f.Tag[1] = "" THEN f.Name ELSE f.Tag[1]

\* the directives of a field
Directives(f) == {j \in 2..Len(f.Tag) : TRUE}

MarkedPk(f) == \E j \in Directives(f) : f.Tag[j] = "pk"

\* the columns of a struct: its mapped fields in declaration order
ExpectedColumns(fs) ==
    LET m == SelectSeq(fs, Mapped) IN [k \in 1..Len(m) |-> NameOf(m[k])]

Range(seq) == {seq[k] : k \in 1..Len(seq)}

IsPtrToStruct(type) == type.Kind = "ptr" /\ type.Elem = "struct"

\* the last call derived the metadata of a type, or tried to
Derived(r) == r.op \in {"getFields", "Columns"}

Collides(type) ==
    \E i, j \in 1..Len(type.Fields) :
        /\ i < j /\ Mapped(type.Fields[i]) /\ Mapped(type.Fields[j])
        /\ NameOf(type.Fields[i]) = NameOf(type.Fields[j])

\* derivation of the type fails now, failed when last tried, and never succeeded
Fails(t) ==
    /\ t \notin DOMAIN fieldsCache
    /\ GetFieldsResult(t, decl[t], registry, fieldsCache).err # NoErr
    /\ (Derived(ret) /\ ret.arg = t) => ret.err # NoErr

\* C2: a type with two mapped fields of the same column name fails
\* derivation, whichever two fields they are
C2_DuplicateColumnFails == \A t \in TypeIds : Collides(decl[t]) => Fails(t)

\* an override placed first collides with the declared name of the field
\* after it, and getFields has reported it
C2_Witness ==
    /\ ret.op = "getFields" /\ ret.err.msg = "multiple fields for column"
    /\ Len(decl[ret.arg].Fields) = 2
    /\ decl[ret.arg].Fields[1].Tag = <<"ID">>
    /\ decl[ret.arg].Fields[2].Name = "ID"
    /\ decl[ret.arg].Fields[2].Tag = <<"">>

\* two mapped fields are marked pk, or one that is marked pk is a pointer or
\* no signed integer
BadPk(type) ==
    \/ \E i, j \in 1..Len(type.Fields) :
          /\ i < j /\ Mapped(type.Fields[i]) /\ Mapped(type.Fields[j])
          /\ MarkedPk(type.Fields[i]) /\ MarkedPk(type.Fields[j])
    \/ \E i \in 1..Len(type.Fields) :
          /\ Mapped(type.Fields[i]) /\ MarkedPk(type.Fields[i])
          /\ type.Fields[i].Kind \notin {"int", "int8", "int16", "int32", "int64"}

\* C3: a type with two pk fields, or with a pk field that is a pointer or no
\* signed integer, fails derivation; a derived metadata has at most one
\* primary-key descriptor, and it is the one named by the metadata's pk
C3_PrimaryKeyConstraints ==
    /\ \A t \in TypeIds : BadPk(decl[t]) => Fails(t)
    /\ \A t \in DOMAIN fieldsCache :
          LET d == fieldsCache[t]
          IN  /\ Cardinality({c \in DOMAIN d.fields : d.fields[c].primaryKey}) <= 1
              /\ \A c \in DOMAIN d.fields : d.fields[c].primaryKey <=> (c = d.pk)
              /\ d.pk # "" => d.pk \in DOMAIN d.fields

\* two signed integer fields of different widths are both marked pk, and
\* getFields has rejected the second
C3_Witness ==
    /\ ret.op = "getFields" /\ ret.err.msg = "a primary key field was already found"
    /\ Len(decl[ret.arg].Fields) = 2
    /\ decl[ret.arg].Fields[1].Kind # decl[ret.arg].Fields[2].Kind
    /\ MarkedPk(decl[ret.arg].Fields[1]) /\ MarkedPk(decl[ret.arg].Fields[2])

\* a mapped field names a handler that the registry does not hold
UnknownHandler(type, reg) ==
    \E i \in 1..Len(type.Fields) :
        /\ Mapped(type.Fields[i])
        /\ \E j \in Directives(type.Fields[i]) :
              type.Fields[i].Tag[j] # "pk" /\ type.Fields[i].Tag[j] \notin DOMAIN reg

\* C4: while a mapped field of a type names a handler that is not registered,
\* derivation of the type fails, whatever its other fields are
C4_UnknownHandlerFails ==
    \A t \in TypeIds : UnknownHandler(decl[t], registry) => Fails(t)

\* a struct whose first field is a valid primary key and whose second names
\* an unregistered handler has been rejected for that handler
C4_Witness ==
    /\ ret.op = "getFields" /\ ret.err.msg = "meddler is not registered"
    /\ Len(decl[ret.arg].Fields) = 2
    /\ ret.err.arg = "custom"
    /\ decl[ret.arg].Fields[1].Tag = <<"", "pk">>
    /\ decl[ret.arg].Fields[1].Kind = "int64"
    /\ decl[ret.arg].Fields[2].Tag = <<"", "custom">>

\* a field with the directives of an unmapped field taken away
Strip(f) == IF Mapped(f) THEN f ELSE [f EXCEPT !.Tag = <<f.Tag[1]>>]
StripType(type) ==
    [type EXCEPT !.Fields = [i \in 1..Len(type.Fields) |-> Strip(type.Fields[i])]]

\* C5: an unexported field and a field marked "-" have no descriptor, and
\* their directives count for nothing: derivation gives what it gives
\* without them, no error names such a field, and the primary key is a
\* mapped field
C5_SkippedFieldsIgnored ==
    /\ \A t \in TypeIds :
          LET r == DeriveFields(decl[t], registry)
          IN  /\ r = DeriveFields(StripType(decl[t]), registry)
              /\ r.err # NoErr =>
                    \A i \in 1..Len(decl[t].Fields) :
                        decl[t].Fields[i].Name = r.err.field => Mapped(decl[t].Fields[i])
    /\ \A t \in DOMAIN fieldsCache :
          LET d == fieldsCache[t]
          IN  /\ \A c \in DOMAIN d.fields : Mapped(decl[t].Fields[d.fields[c].index + 1])
              /\ d.pk # "" => d.pk \in DOMAIN d.fields
    /\ (Derived(ret) /\ ret.err # NoErr) =>
          \A i \in 1..Len(decl[ret.arg].Fields) :
              decl[ret.arg].Fields[i].Name = ret.err.field
                  => Mapped(decl[ret.arg].Fields[i])

\* an unexported field marked pk comes before the real primary key, and the
\* type has been derived with the second field as its key
C5_Witness ==
    /\ ret.op = "getFields" /\ ret.err = NoErr
    /\ Len(decl[ret.arg].Fields) = 2
    /\ decl[ret.arg].Fields[1].PkgPath # ""
    /\ decl[ret.arg].Fields[1].Tag = <<"", "pk">>
    /\ MarkedPk(decl[ret.arg].Fields[2])
    /\ ret.data.pk = "ID" /\ ret.data.columns = <<"ID">>

\* the handler a field is bound to under a registry: that of its last
\* handler token, the identity handler when it has none
ExpectedHandler(f, reg) ==
    LET hs == {j \in Directives(f) : f.Tag[j] # "pk"}
    IN  IF hs = {} THEN reg["identity"]
        ELSE reg[f.Tag[CHOOSE j \in hs : \A k \in hs : k <= j]]

\* C6: a call that derives a type gives each mapped field the primary-key
\* flag exactly when it is marked pk, and the handler of its last handler
\* token, the identity handler when it has none, wherever pk stands
C6_PkAndHandlerIndependent ==
    [][\A t \in TypeIds :
          (t \notin DOMAIN fieldsCache /\ t \in DOMAIN fieldsCache') =>
              \A i \in 1..Len(decl[t].Fields) :
                  LET f == decl[t].Fields[i]
                  IN  Mapped(f) =>
                        /\ NameOf(f) \in DOMAIN fieldsCache'[t].fields
                        /\ fieldsCache'[t].fields[NameOf(f)].primaryKey = MarkedPk(f)
                        /\ fieldsCache'[t].fields[NameOf(f)].meddler
                              = ExpectedHandler(f, registry)]_vars

\* a field marked pk and then a caller's handler is the primary key and is
\* bound to that handler
C6_Witness ==
    /\ ret.op = "getFields" /\ ret.err = NoErr
    /\ Len(decl[ret.arg].Fields) = 1
    /\ decl[ret.arg].Fields[1].Name = "ID"
    /\ decl[ret.arg].Fields[1].Tag = <<"", "pk", "custom">>
    /\ ret.data.fields["ID"].primaryKey
    /\ ret.data.fields["ID"].meddler = "h2"

\* C7: a cache entry is never removed or replaced, and every derivation of
\* a cached type returns that entry, whatever was derived, failed or
\* registered since it was stored
C7_CacheEntryStable ==
    [][\A t \in DOMAIN fieldsCache :
          /\ t \in DOMAIN fieldsCache'
          /\ fieldsCache'[t] = fieldsCache[t]
          /\ (ret'.op = "getFields" /\ ret'.arg = t) =>
                (ret'.err = NoErr /\ ret'.data = fieldsCache[t])
          /\ (ret'.op = "Columns" /\ ret'.arg = t /\ ret'.includePk) =>
                (ret'.err = NoErr /\ ret'.names = fieldsCache[t].columns)]_vars

\* the type under test was derived while custom named h1, custom has been
\* registered again since, another type has been derived, and getFields
\* still returns the metadata bound to h1
C7_Witness ==
    /\ ret.op = "getFields" /\ ret.arg = "T" /\ ret.err = NoErr
    /\ "Person" \in DOMAIN fieldsCache
    /\ "custom" \in DOMAIN registry /\ registry["custom"] = "h2"
    /\ \E c \in DOMAIN ret.data.fields : ret.data.fields[c].meddler = "h1"

\* a type that nothing but a missing handler name could keep from deriving
WellFormed(type, reg) ==
    /\ IsPtrToStruct(type)
    /\ ~Collides(type) /\ ~BadPk(type) /\ ~UnknownHandler(type, reg)
    /\ \A i \in 1..Len(type.Fields) :
          Mapped(type.Fields[i]) =>
              Cardinality({j \in Directives(type.Fields[i]) : type.Fields[i].Tag[j] = "pk"}) <= 1

\* C8: a failed derivation leaves the cache as it was, so that the same call
\* made again fails with the same error; and a type that is not cached and
\* whose handler names are all registered by now derives, whatever failed
\* before
C8_FailureStoresNothing ==
    [][/\ (Derived(ret') /\ ret'.err # NoErr) =>
            /\ fieldsCache' = fieldsCache
            /\ LET again == GetFieldsResult(ret'.arg, decl[ret'.arg], registry', fieldsCache')
               IN  again.err = ret'.err /\ again.cache = fieldsCache
       /\ (Derived(ret) /\ ret.err # NoErr /\ Derived(ret') /\ ret'.arg = ret.arg) =>
            ret'.err = ret.err
       /\ \A t \in TypeIds :
            (Derived(ret') /\ ret'.arg = t /\ t \notin DOMAIN fieldsCache
                /\ WellFormed(decl[t], registry)) =>
                    (ret'.err = NoErr /\ t \in DOMAIN fieldsCache')]_vars

\* getFields has failed for the type under test over an unregistered name
\* while the cache held another type, and the cache holds just that type
C8_Witness ==
    /\ ret.op = "getFields" /\ ret.arg = "T"
    /\ ret.err.msg = "meddler is not registered"
    /\ DOMAIN fieldsCache = {"Person"}

\* C9: with concurrent callers no map is read or written while another
\* caller is writing it
C9_MapAccessExcluded == ~Race

\* C10: pk is never a key of the registry and Register of pk fails; the six
\* built-in names are there from the start; a Register call of another name
\* stores its handler under that name and changes nothing else, and nothing
\* but Register changes the registry
C10_RegistryLastWins ==
    /\ [](/\ "pk" \notin DOMAIN registry
          /\ {"identity", "zeroisnull", "localtime", "localtimez", "utctime", "utctimez"}
                \subseteq DOMAIN registry
          /\ ret.op = "init" =>
                DOMAIN registry = {"identity", "zeroisnull", "localtime", "localtimez",
                                   "utctime", "utctimez"}
          /\ (ret.op = "Register" /\ ret.arg # "pk") => registry[ret.arg] = ret.m
          /\ (ret.op = "Register" /\ ret.arg = "pk") => ret.err # NoErr)
    /\ [][/\ registry' # registry =>
               /\ ret'.op = "Register"
               /\ DOMAIN registry' = DOMAIN registry \cup {ret'.arg}
               /\ \A n \in DOMAIN registry \ {ret'.arg} : registry'[n] = registry[n]
          /\ (ret'.op = "Register" /\ ret'.arg # "pk") => registry'[ret'.arg] = ret'.m]_vars

\* Register of pk has failed after a built-in name was registered again and
\* a new name was registered
C10_Witness ==
    /\ ret.op = "Register" /\ ret.arg = "pk" /\ ret.err # NoErr
    /\ registry["zeroisnull"] = "h2"
    /\ "custom" \in DOMAIN registry /\ registry["custom"] = "h1"

----------------------------------------------------------------------------
(* Go values of the fields, the scan targets and the database *)

\* A value is [t, n, loc, nil]: its Go type, its content as a number (0 is the
\* zero value of the type: 0, 0.0, "", false, the zero instant), the location
\* of a time, and whether it is a nil pointer or the NULL of the database.
\* The value of a non-nil pointer carries the content it points to.
Val(t, n) == [t |-> t, n |-> n, loc |-> "", nil |-> FALSE]
Time(n, loc) == [t |-> "time.Time", n |-> n, loc |-> loc, nil |-> FALSE]
\* the driver.Value nil
Null == [t |-> "nil", n |-> 0, loc |-> "", nil |-> TRUE]

\* the types of the fields
ScalarTypes == {"int", "int64", "uint", "float64", "complex128", "string", "bool"}
BaseTypes == ScalarTypes \cup {"time.Time"}
PtrOf(t) == "*" \o t
PtrTypes == {PtrOf(t) : t \in BaseTypes}
\* the types of the pointers a handler makes to scan into
AuxTypes == PtrTypes \cup {PtrOf(t) : t \in PtrTypes}
ElemOf(p) == CHOOSE t \in BaseTypes \cup PtrTypes : PtrOf(t) = p

\* reflect.Type.Kind() of a field type
KindOf(t) ==
    IF t \in PtrTypes THEN "ptr" ELSE IF t = "time.Time" THEN "struct" ELSE t

\* reflect.Zero(t)
Zero(t) ==
    IF t \in AuxTypes THEN [t |-> t, n |-> 0, loc |-> "", nil |-> TRUE]
    ELSE IF t = "time.Time" THEN Time(0, "UTC")
    ELSE Val(t, 0)

\* &v, and *p of a non-nil p
Ref(v) == [v EXCEPT !.t = PtrOf(v.t)]
Deref(p) == [p EXCEPT !.t = ElemOf(p.t)]

\* time.Time: UTC(), Local(), IsZero()
UTC(v) == [v EXCEPT !.loc = "UTC"]
Local(v) == [v EXCEPT !.loc = "Local"]
IsZero(v) == v.n = 0

\* A scan target is [via, v]: via "field" it is the address of the field
\* itself, via "aux" the address of a pointer the handler made, via "new" the
\* address of a fresh interface{}; v is what the target points at.
Target(via, v) == [via |-> via, v |-> v]
NoTarget == Target("none", Null)

----------------------------------------------------------------------------
(* The handlers: meddler.go *)

TimeMeddlers ==
    {BuiltinRegistry[n] : n \in {"localtime", "localtimez", "utctime", "utctimez"}}
\* the fields ZeroIsNull and Local of a TimeMeddler
ZeroIsNull(elt) == elt \in {BuiltinRegistry["localtimez"], BuiltinRegistry["utctimez"]}
IsLocal(elt) == elt \in {BuiltinRegistry["localtime"], BuiltinRegistry["localtimez"]}

\* the result of a hook: a value or a target, and an error
Hooked(v, err) == [v |-> v, err |-> err]

\* IdentityMeddler
IdentityPreRead(f) == Hooked(Target("field", f), NoErr)
IdentityPostRead(f, scanTarget) == Hooked(f, NoErr)
IdentityPreWrite(f) == Hooked(f, NoErr)

\* TimeMeddler.PreRead that lets the scan of a *time.Time field go ahead
\* whatever ZeroIsNull says, and leaves the refusal to PostRead
TimePreReadLate(elt, f) ==
    CASE f.t = "time.Time" ->
            IF ZeroIsNull(elt)
            THEN Hooked(Target("aux", Ref(f)), NoErr)
            ELSE Hooked(Target("field", f), NoErr)
      [] f.t = "*time.Time" -> Hooked(Target("field", f), NoErr)
      [] OTHER -> Hooked(NoTarget, Errorf("TimeMeddler.PreRead: unknown struct field type", "", f.t))

\* TimeMeddler.PreRead: f is the value of the field fieldAddr points to
TimePreRead(elt, f) ==
    CASE f.t = "time.Time" ->
            IF ZeroIsNull(elt)
            THEN Hooked(Target("aux", Ref(f)), NoErr)
            ELSE Hooked(Target("field", f), NoErr)
      [] f.t = "*time.Time" ->
            IF ZeroIsNull(elt)
            THEN Hooked(NoTarget, Errorf("TimeMeddler cannot be used on a *time.Time field", "", ""))
            ELSE Hooked(Target("field", f), NoErr)
      [] OTHER -> Hooked(NoTarget, Errorf("TimeMeddler.PreRead: unknown struct field type", "", f.t))

\* the zone conversion that leaves the time in UTC whatever Local says
TimeZonedAlwaysUTC(elt, v) == UTC(v)

\* the zone conversion of PostRead
TimeZoned(elt, v) == IF IsLocal(elt) THEN Local(v) ELSE UTC(v)

\* TimeMeddler.PostRead: the field after the hook
TimePostRead(elt, f, scanTarget) ==
    CASE f.t = "time.Time" ->
            IF ZeroIsNull(elt)
            THEN IF scanTarget.v.nil
                 THEN Hooked(Zero("time.Time"), NoErr)
                 ELSE Hooked(TimeZoned(elt, Deref(scanTarget.v)), NoErr)
            ELSE Hooked(TimeZoned(elt, scanTarget.v), NoErr)
      [] f.t = "*time.Time" ->
            IF ZeroIsNull(elt)
            THEN Hooked(f, Errorf("TimeMeddler cannot be used on a *time.Time field", "", ""))
            ELSE IF scanTarget.v.nil
                 THEN Hooked(Zero("*time.Time"), NoErr)
                 ELSE Hooked(TimeZoned(elt, scanTarget.v), NoErr)
      [] OTHER -> Hooked(f, Errorf("TimeMeddler.PostRead: unknown struct field type", "", f.t))

\* TimeMeddler.PreWrite that hands the zero time of a time.Time field to the
\* driver whatever ZeroIsNull says
TimePreWriteZeroKept(elt, f) ==
    CASE f.t = "time.Time" -> Hooked(UTC(f), NoErr)
      [] f.t = "*time.Time" ->
            IF f.nil \/ (ZeroIsNull(elt) /\ IsZero(f))
            THEN Hooked(Null, NoErr)
            ELSE Hooked(UTC(Deref(f)), NoErr)
      [] OTHER -> Hooked(Null, Errorf("TimeMeddler.PreWrite: unknown struct field type", "", f.t))

\* TimeMeddler.PreWrite: the value handed to the driver
TimePreWrite(elt, f) ==
    CASE f.t = "time.Time" ->
            IF ZeroIsNull(elt) /\ IsZero(f)
            THEN Hooked(Null, NoErr)
            ELSE Hooked(UTC(f), NoErr)
      [] f.t = "*time.Time" ->
            IF f.nil \/ (ZeroIsNull(elt) /\ IsZero(f))
            THEN Hooked(Null, NoErr)
            ELSE Hooked(UTC(Deref(f)), NoErr)
      [] OTHER -> Hooked(Null, Errorf("TimeMeddler.PreWrite: unknown struct field type", "", f.t))

\* ZeroIsNullMeddler.PreRead: a new nil pointer to scan into
ZeroIsNullPreRead(f) == Hooked(Target("aux", Zero(PtrOf(f.t))), NoErr)

\* ZeroIsNullMeddler.PostRead
ZeroIsNullPostRead(f, scanTarget) ==
    IF scanTarget.v.nil
    THEN Hooked(Zero(f.t), NoErr)
    ELSE Hooked(Deref(scanTarget.v), NoErr)

\* the kinds the switch of ZeroIsNullMeddler.PreWrite has a case for
ZeroIsNullKinds ==
    SignedIntKinds \cup {"uint", "uint8", "uint16", "uint32", "uint64"}
        \cup {"float32", "float64", "complex64", "complex128", "string"}

\* ZeroIsNullMeddler.PreWrite
ZeroIsNullPreWrite(f) ==
    IF KindOf(f.t) \in ZeroIsNullKinds
    THEN IF f.n = 0 THEN Hooked(Null, NoErr) ELSE Hooked(f, NoErr)
    ELSE Hooked(Null, Errorf("ZeroIsNullMeddler.PreWrite: unknown struct field type", "", f.t))

\* The handlers a caller registers implement the interface as they like.
\* Those here scan into the field itself, and their PostRead and PreWrite
\* refuse the content 2, as a decoder refuses malformed input.
Refuses(m, v) == m \in Handlers /\ ~v.nil /\ v.n = 2
CustomPreRead(m, f) == Hooked(Target("field", f), NoErr)
CustomPostRead(m, f, scanTarget) ==
    IF Refuses(m, scanTarget.v)
    THEN Hooked(f, Errorf("refused", "", m))
    ELSE Hooked(f, NoErr)
CustomPreWrite(m, f) ==
    IF Refuses(m, f)
    THEN Hooked(Null, Errorf("refused", "", m))
    ELSE Hooked(f, NoErr)

\* field.meddler.PreRead(fieldAddr), for the value f of the field
PreRead(m, f) ==
    CASE m = "IdentityMeddler" -> IdentityPreRead(f)
      [] m = "ZeroIsNullMeddler" -> ZeroIsNullPreRead(f)
      [] m \in TimeMeddlers -> TimePreRead(m, f)
      [] OTHER -> CustomPreRead(m, f)

\* field.meddler.PostRead(fieldAddr, scanTarget): the field after the hook
PostRead(m, f, scanTarget) ==
    CASE m = "IdentityMeddler" -> IdentityPostRead(f, scanTarget)
      [] m = "ZeroIsNullMeddler" -> ZeroIsNullPostRead(f, scanTarget)
      [] m \in TimeMeddlers -> TimePostRead(m, f, scanTarget)
      [] OTHER -> CustomPostRead(m, f, scanTarget)

\* field.meddler.PreWrite(field)
PreWrite(m, f) ==
    CASE m = "IdentityMeddler" -> IdentityPreWrite(f)
      [] m = "ZeroIsNullMeddler" -> ZeroIsNullPreWrite(f)
      [] m \in TimeMeddlers -> TimePreWrite(m, f)
      [] OTHER -> CustomPreWrite(m, f)

----------------------------------------------------------------------------
(* The result set: *sql.Rows of database/sql, as scanRow uses it *)

\* sql.ErrNoRows, and the errors of the driver
ErrNoRows == Errorf("sql: no rows in result set", "", "")
ErrFetch == Errorf("driver: fetch failed", "", "")
ErrTrailing == Errorf("driver: result set broken", "", "")
ErrClosed == Errorf("sql: Rows are closed", "", "")
ErrClose == Errorf("driver: close failed", "", "")

\* A result set is [columns, data, pos, closed, lasterr, failAt, trailAt,
\* closeErr, closes]: the column names, the rows, the number of rows fetched,
\* whether it is closed, what Err() returns, the fetch that fails (0: none),
\* the row after whose fetch Err() reports an error (0: none), whether the
\* driver fails to close, and the number of calls of Close().
NewRows(columns, data, failAt, trailAt, closeErr) ==
    [columns |-> columns, data |-> data, pos |-> 0, closed |-> FALSE,
     lasterr |-> NoErr, failAt |-> failAt, trailAt |-> trailAt,
     closeErr |-> closeErr, closes |-> 0]

\* rows.Next(): database/sql closes the result set when the fetch fails or
\* finds no row, without a call of Close()
RowsNext(r) ==
    IF r.closed THEN [ok |-> FALSE, rows |-> r]
    ELSE IF r.failAt = r.pos + 1
    THEN [ok |-> FALSE, rows |-> [r EXCEPT !.lasterr = ErrFetch, !.closed = TRUE]]
    ELSE IF r.pos >= Len(r.data)
    THEN [ok |-> FALSE, rows |-> [r EXCEPT !.lasterr = NoErr, !.closed = TRUE]]
    ELSE [ok |-> TRUE,
          rows |-> [r EXCEPT !.pos = r.pos + 1,
                             !.lasterr = IF r.trailAt = r.pos + 1 THEN ErrTrailing ELSE NoErr]]

\* rows.Err()
RowsErr(r) == r.lasterr

\* rows.Columns()
RowsColumns(r) ==
    IF r.closed THEN [columns |-> <<>>, err |-> ErrClosed]
    ELSE [columns |-> r.columns, err |-> NoErr]

\* rows.Close()
RowsClose(r) ==
    [rows |-> [r EXCEPT !.closed = TRUE, !.closes = r.closes + 1],
     err |-> IF ~r.closed /\ r.closeErr THEN ErrClose ELSE NoErr]

\* the integer types the driver's int64 converts to
IntegerTypes == {"int", "int64", "uint"}

\* convertAssign of database/sql: the value src of the driver stored where a
\* pointer to a T points
RECURSIVE ConvertAssign(_, _)
ConvertAssign(T, src) ==
    IF T = "interface{}" THEN Hooked(src, NoErr)
    ELSE IF T \in AuxTypes
    THEN IF src.nil THEN Hooked(Zero(T), NoErr)
         ELSE LET r == ConvertAssign(ElemOf(T), src)
              IN  IF r.err # NoErr THEN r ELSE Hooked(Ref(r.v), NoErr)
    ELSE IF src.nil
    THEN Hooked(src, Errorf("sql: Scan error: converting NULL is unsupported", "", T))
    ELSE IF src.t = T \/ {src.t, T} \subseteq IntegerTypes
    THEN Hooked([src EXCEPT !.t = T], NoErr)
    ELSE Hooked(src, Errorf("sql: Scan error: unsupported conversion", src.t, T))

\* the type of what a target of the struct structVal points at
CellType(tg, structVal) ==
    CASE tg.via = "field" -> structVal[tg.index].t
      [] tg.via = "aux" -> tg.v.t
      [] OTHER -> "interface{}"

\* rows.Scan(targets...): the columns of the current row are stored in order,
\* up to the first that cannot be converted
RECURSIVE ScanLoop(_, _, _, _)
ScanLoop(row, i, targets, structVal) ==
    IF i > Len(targets) THEN [targets |-> targets, structVal |-> structVal, err |-> NoErr]
    ELSE LET tg == targets[i]
             c  == ConvertAssign(CellType(tg, structVal), row[i])
         IN  IF c.err # NoErr
             THEN [targets |-> targets, structVal |-> structVal, err |-> c.err]
             ELSE ScanLoop(row, i + 1, [targets EXCEPT ![i].v = c.v],
                           IF tg.via = "field"
                           THEN [structVal EXCEPT ![tg.index] = c.v]
                           ELSE structVal)

RowsScan(r, targets, structVal) ==
    IF r.closed \/ r.pos = 0
    THEN [targets |-> targets, structVal |-> structVal, err |-> ErrClosed]
    ELSE IF Len(targets) # Len(r.columns)
    THEN [targets |-> targets, structVal |-> structVal,
          err |-> Errorf("sql: wrong number of destination arguments", "", "")]
    ELSE ScanLoop(r.data[r.pos], 1, targets, structVal)

----------------------------------------------------------------------------
(* Row materialization: sqlscan.go *)

\* an entry of the record of what a call did, in the order it did it
Ev(ev, col) == [ev |-> ev, col |-> col]

\* a column without a field gets no target
NoDestinationSkipped(targets) == targets

\* a column without a field: a new(interface{}) to throw the value away
NoDestination(targets) == Append(targets, [via |-> "new", v |-> Null, index |-> 0])

\* the loop of Targets over the columns; structVal is the struct dst points to
RECURSIVE TargetsLoop(_, _, _, _, _, _)
TargetsLoop(data, structVal, columns, i, targets, log) ==
    IF i > Len(columns) THEN [targets |-> targets, err |-> NoErr, log |-> log]
    ELSE LET name == columns[i]
         IN  IF name \in DOMAIN data.fields
             THEN LET field == data.fields[name]
                      p == PreRead(field.meddler, structVal[field.index + 1])
                      l == Append(log, Ev("PreRead", name))
                  IN  IF p.err # NoErr
                      THEN [targets |-> <<>>,
                            err |-> Errorf("meddler.Targets: PreRead error on column", name, p.err.msg),
                            log |-> l]
                      ELSE TargetsLoop(data, structVal, columns, i + 1,
                               Append(targets, [via |-> p.v.via, v |-> p.v.v,
                                                index |-> field.index + 1]), l)
             ELSE TargetsLoop(data, structVal, columns, i + 1, NoDestination(targets), log)

\* Targets once getFields has returned g
TargetsOfFields(g, structVal, columns) ==
    IF g.err # NoErr
    THEN [targets |-> <<>>, err |-> g.err, log |-> <<>>, cache |-> g.cache]
    ELSE TargetsLoop(g.data, structVal, columns, 1, <<>>, <<>>) @@ [cache |-> g.cache]

\* Targets(dst, columns) for a dst of type t that points to structVal
Targets(t, type, structVal, columns, reg, cache) ==
    TargetsOfFields(GetFieldsResult(t, type, reg, cache), structVal, columns)

\* the loop of WriteTargets over the columns
RECURSIVE WriteTargetsLoop(_, _, _, _, _, _)
WriteTargetsLoop(data, structVal, columns, targets, i, log) ==
    IF i > Len(columns) THEN [structVal |-> structVal, err |-> NoErr, log |-> log]
    ELSE LET name == columns[i]
         IN  IF name \in DOMAIN data.fields
             THEN LET field == data.fields[name]
                      f == structVal[field.index + 1]
                      \* a target that is the address of a field points at the field
                      tg == IF targets[i].via = "field"
                            THEN Target("field", structVal[targets[i].index])
                            ELSE Target(targets[i].via, targets[i].v)
                      p == PostRead(field.meddler, f, tg)
                      l == Append(log, Ev("PostRead", name))
                  IN  IF p.err # NoErr
                      THEN [structVal |-> structVal,
                            err |-> Errorf("meddler.WriteTargets: PostRead error on column", name, p.err.msg),
                            log |-> l]
                      ELSE WriteTargetsLoop(data, [structVal EXCEPT ![field.index + 1] = p.v],
                                            columns, targets, i + 1, l)
             ELSE WriteTargetsLoop(data, structVal, columns, targets, i + 1, log)

\* WriteTargets once getFields has returned g
WriteTargetsOfFields(g, structVal, columns, targets) ==
    IF g.err # NoErr
    THEN [structVal |-> structVal, err |-> g.err, log |-> <<>>, cache |-> g.cache]
    ELSE WriteTargetsLoop(g.data, structVal, columns, targets, 1, <<>>) @@ [cache |-> g.cache]

\* WriteTargets(dst, columns, targets)
WriteTargets(t, type, structVal, columns, targets, reg, cache) ==
    IF Len(columns) # Len(targets)
    THEN [structVal |-> structVal, log |-> <<>>, cache |-> cache,
          err |-> Errorf("meddler.WriteTargets: mismatch in number of columns and targets", "", "")]
    ELSE WriteTargetsOfFields(GetFieldsResult(t, type, reg, cache), structVal, columns, targets)

\* the sentinel is returned whatever the fetch reports
NoRowErrAlwaysSentinel(r) == ErrNoRows

\* what scanRow returns when rows.Next() is false
NoRowErr(r) == IF RowsErr(r) # NoErr THEN RowsErr(r) ELSE ErrNoRows

\* what scanRow returns and leaves behind
Scanned(r, structVal, err, cache, log, targets) ==
    [rows |-> r, structVal |-> structVal, err |-> err, cache |-> cache, log |-> log,
     targets |-> targets]

\* scanRow once WriteTargets has returned wt: the error of the hooks, or rows.Err()
scanRowWritten(rws, wt, targets, log) ==
    Scanned(rws, wt.structVal, IF wt.err # NoErr THEN wt.err ELSE RowsErr(rws), wt.cache,
            log \o wt.log, targets)

\* scanRow once rows.Scan has returned sc
scanRowScanned(rws, t, type, columns, reg, cache, sc, log) ==
    IF sc.err # NoErr
    THEN Scanned(rws, sc.structVal, sc.err, cache, log, sc.targets)
    ELSE scanRowWritten(rws,
             WriteTargets(t, type, sc.structVal, columns, sc.targets, reg, cache),
             sc.targets, log)

\* the row is scanned whatever Targets has returned
scanRowTargetedScanning(rws, t, type, structVal, columns, reg, tg) ==
    scanRowScanned(rws, t, type, columns, reg, tg.cache,
        RowsScan(rws, tg.targets, structVal),
        Append(<<Ev("Next", "")>> \o tg.log, Ev("Scan", "")))

\* scanRow once Targets has returned tg
scanRowTargeted(rws, t, type, structVal, columns, reg, tg) ==
    IF tg.err # NoErr
    THEN Scanned(rws, structVal, tg.err, tg.cache, <<Ev("Next", "")>> \o tg.log, <<>>)
    ELSE scanRowScanned(rws, t, type, columns, reg, tg.cache,
             RowsScan(rws, tg.targets, structVal),
             Append(<<Ev("Next", "")>> \o tg.log, Ev("Scan", "")))

\* scanRow once rows.Next() has returned n
scanRowFetched(n, t, type, structVal, columns, reg, cache) ==
    IF ~n.ok
    THEN Scanned(n.rows, structVal, NoRowErr(n.rows), cache, <<Ev("Next", "")>>, <<>>)
    ELSE scanRowTargeted(n.rows, t, type, structVal, columns, reg,
             Targets(t, type, structVal, columns, reg, cache))

\* data.scanRow(rows, dst, columns)
scanRow(r, t, type, structVal, columns, reg, cache) ==
    scanRowFetched(RowsNext(r), t, type, structVal, columns, reg, cache)

\* Scan once rows.Columns() has returned c
ScanOfColumns(r, t, type, structVal, reg, cache, c) ==
    IF c.err # NoErr
    THEN Scanned(r, structVal, c.err, cache, <<>>, <<>>)
    ELSE scanRow(r, t, type, structVal, c.columns, reg, cache)

\* Scan once getFields has returned g
ScanOfFields(r, t, type, structVal, reg, g) ==
    IF g.err # NoErr
    THEN Scanned(r, structVal, g.err, g.cache, <<>>, <<>>)
    ELSE ScanOfColumns(r, t, type, structVal, reg, g.cache, RowsColumns(r))

\* Scan(rows, dst): the same record, for the caller
ScanResult(r, t, type, structVal, reg, cache) ==
    ScanOfFields(r, t, type, structVal, reg, GetFieldsResult(t, type, reg, cache))

\* ScanRow once Scan has returned s: rows.Close() unless Scan failed, and the
\* deferred rows.Close()
ScanRowClose(s) ==
    IF s.err # NoErr
    THEN [s EXCEPT !.rows = RowsClose(s.rows).rows]
    ELSE [s EXCEPT !.rows = RowsClose(RowsClose(s.rows).rows).rows,
                   !.err = RowsClose(s.rows).err]

\* the same without the deferred rows.Close()
ScanRowCloseNoDefer(s) ==
    IF s.err # NoErr THEN s
    ELSE [s EXCEPT !.rows = RowsClose(s.rows).rows, !.err = RowsClose(s.rows).err]

\* ScanRow without the deferred rows.Close()
ScanRowResultNoDefer(r, t, type, structVal, reg, cache) ==
    ScanRowCloseNoDefer(ScanResult(r, t, type, structVal, reg, cache))

\* ScanRow(rows, dst): Scan, then rows.Close(), and the deferred rows.Close()
ScanRowResult(r, t, type, structVal, reg, cache) ==
    ScanRowClose(ScanResult(r, t, type, structVal, reg, cache))

\* reflect.New(eltType): a struct of zero values
ZeroStruct(type) == [i \in 1..Len(type.Fields) |-> Zero(type.Fields[i].Type)]

\* the type of a pointer to a slice of elemType
PtrToSlice(elemType) ==
    [Kind |-> "ptr", Elem |-> "slice", Fields |-> <<>>, Of |-> elemType]

\* the sentinel is returned like any other error
LoopErrSurfaced(err) == err

\* what ScanAll returns when scanRow returns an error
LoopErr(err) == IF err = ErrNoRows THEN NoErr ELSE err

\* the loop of ScanAll: one new element for each row
RECURSIVE ScanAllLoop(_, _, _, _, _, _, _, _)

\* the loop of ScanAll once scanRow has returned s
ScanAllNext(s, t, ptrType, columns, slice, reg, log) ==
    IF s.err # NoErr
    THEN Scanned(s.rows, slice, LoopErr(s.err), s.cache, log \o s.log, <<>>)
    ELSE ScanAllLoop(s.rows, t, ptrType, columns, Append(slice, s.structVal),
                     reg, s.cache, log \o s.log)

ScanAllLoop(r, t, ptrType, columns, slice, reg, cache, log) ==
    ScanAllNext(scanRow(r, t, ptrType, ZeroStruct(ptrType), columns, reg, cache),
                t, ptrType, columns, slice, reg, log)

\* the check ScanAll makes of the element type of the slice
ElementError(ptrType) ==
    IF ptrType.Kind # "ptr"
    THEN Errorf("ScanAll expects element to be pointers", "", "")
    ELSE IF ptrType.Elem # "struct"
    THEN Errorf("ScanAll expects element to be pointers to structs", "", "")
    ELSE NoErr

\* ScanAll once rows.Columns() has returned c
ScanAllOfColumns(r, d, t, reg, cache, c) ==
    IF c.err # NoErr
    THEN Scanned(r, d.v, c.err, cache, <<>>, <<>>)
    ELSE ScanAllLoop(r, t, d.type.Of, c.columns, d.v, reg, cache, <<>>)

\* ScanAll once getFields has returned g
ScanAllOfFields(r, d, t, reg, g) ==
    IF g.err # NoErr
    THEN Scanned(r, d.v, g.err, g.cache, <<>>, <<>>)
    ELSE ScanAllOfColumns(r, d, t, reg, g.cache, RowsColumns(r))

\* ScanAll(rows, dst) before the deferred rows.Close(): d is the destination,
\* d.type its type, d.v the slice it points to, t the name of the element type
ScanAllBody(r, d, t, reg, cache) ==
    IF d.type.Kind # "ptr" \/ d.nil
    THEN Scanned(r, d.v, Errorf("ScanAll called with non-pointer destination", "", ""),
                 cache, <<>>, <<>>)
    ELSE IF d.type.Elem # "slice"
    THEN Scanned(r, d.v, Errorf("ScanAll called with pointer to non-slice", "", ""),
                 cache, <<>>, <<>>)
    ELSE IF ElementError(d.type.Of) # NoErr
    THEN Scanned(r, d.v, ElementError(d.type.Of), cache, <<>>, <<>>)
    ELSE ScanAllOfFields(r, d, t, reg, GetFieldsResult(t, d.type.Of, reg, cache))

\* the deferred rows.Close() of ScanAll
ScanAllClose(s) == [s EXCEPT !.rows = RowsClose(s.rows).rows]

\* ScanAll(rows, dst)
ScanAllResult(r, d, t, reg, cache) == ScanAllClose(ScanAllBody(r, d, t, reg, cache))

\* the error of SomeValues leaves out the column, and the values so far are returned
PreWriteErrorUnnamed(name, cause, values) ==
    [values |-> values, err |-> Errorf("meddler.SomeValues: PreWrite error", "", cause.msg)]

\* what SomeValues returns when PreWrite fails on a column
PreWriteError(name, cause, values) ==
    [values |-> <<>>,
     err |-> Errorf("meddler.SomeValues: PreWrite error on column", name, cause.msg)]

\* the loop of SomeValues over the columns
RECURSIVE SomeValuesLoop(_, _, _, _, _, _)
SomeValuesLoop(data, structVal, columns, i, values, log) ==
    IF i > Len(columns) THEN [values |-> values, err |-> NoErr, log |-> log]
    ELSE LET name == columns[i]
         IN  IF name \notin DOMAIN data.fields
             THEN SomeValuesLoop(data, structVal, columns, i + 1, Append(values, Null), log)
             ELSE LET field == data.fields[name]
                      p == PreWrite(field.meddler, structVal[field.index + 1])
                      l == Append(log, Ev("PreWrite", name))
                  IN  IF p.err # NoErr
                      THEN LET r == PreWriteError(name, p.err, values)
                           IN  [values |-> r.values, err |-> r.err, log |-> l]
                      ELSE SomeValuesLoop(data, structVal, columns, i + 1,
                                          Append(values, p.v), l)

\* a column that names no field gets no value
SomeValuesOfFieldsSkipping(g, structVal, columns) ==
    IF g.err # NoErr
    THEN [values |-> <<>>, err |-> g.err, log |-> <<>>, cache |-> g.cache]
    ELSE SomeValuesLoop(g.data, structVal,
                        SelectSeq(columns, LAMBDA c : c \in DOMAIN g.data.fields),
                        1, <<>>, <<>>) @@ [cache |-> g.cache]

\* SomeValues once getFields has returned g
SomeValuesOfFields(g, structVal, columns) ==
    IF g.err # NoErr
    THEN [values |-> <<>>, err |-> g.err, log |-> <<>>, cache |-> g.cache]
    ELSE SomeValuesLoop(g.data, structVal, columns, 1, <<>>, <<>>) @@ [cache |-> g.cache]

\* SomeValues(src, columns)
SomeValues(t, type, structVal, columns, reg, cache) ==
    SomeValuesOfFields(GetFieldsResult(t, type, reg, cache), structVal, columns)

\* Values once Columns has returned c
ValuesOfColumns(t, type, structVal, reg, c) ==
    IF c.err # NoErr
    THEN [values |-> <<>>, err |-> c.err, log |-> <<>>, cache |-> c.cache]
    ELSE SomeValues(t, type, structVal, c.names, reg, c.cache)

\* Values(src, includePk)
Values(t, type, structVal, includePk, reg, cache) ==
    ValuesOfColumns(t, type, structVal, reg, Columns(t, type, includePk, reg, cache))

----------------------------------------------------------------------------
(* The scans under test *)

\* the largest number of rows of a result set
MaxRows == 2
\* the numbers of calls made before a call
CallCounts == {0, 1, 2}

\* a field of a struct, with its Go type
Fld(name, pkgPath, type, tag) ==
    [Name |-> name, PkgPath |-> pkgPath, Kind |-> KindOf(type), Type |-> type, Tag |-> tag]

\* the registry after Register("custom", h1)
ScanRegistry == MapPut(BuiltinRegistry, "custom", "h1")

\* a struct with a field for each handler, an unexported and an excluded field
Item ==
    PtrTo(<< Fld("ID",        "",     "int64",      <<"id", "pk">>),
             Fld("Age",       "",     "int",        <<"age", "zeroisnull">>),
             Fld("Closed",    "",     "time.Time",  <<"closed", "utctimez">>),
             Fld("Note",      "",     "int",        <<"note", "custom">>),
             Fld("private",   "main", "int",        <<"">>),
             Fld("Ephemeral", "",     "int",        <<"-">>),
             Fld("Updated",   "",     "*time.Time", <<"updated", "localtime">>) >>)

\* a struct whose second field has a pre-scan hook that fails
Event ==
    PtrTo(<< Fld("ID",     "", "int64",      <<"id", "pk">>),
             Fld("Closed", "", "*time.Time", <<"closed", "utctimez">>),
             Fld("Note",   "", "int",        <<"note", "custom">>) >>)

\* a struct with two fields of one column name, and a struct that is no pointer
Twice ==
    PtrTo(<< Fld("ID", "", "int64", <<"id">>), Fld("Key", "", "int64", <<"id">>) >>)
Bare == [Kind |-> "struct", Elem |-> "", Fields |-> Item.Fields]

ScanTypes == {Item, Event, Twice, Bare}

\* the result sets: a select * of a table that has a column more than Item,
\* and a select of two columns
WideColumns == <<"id", "extra", "age", "closed", "note", "updated">>
FullRow ==
    <<Val("int64", 1), Val("string", 1), Val("int64", 3), Time(1, "Other"),
      Val("int64", 1), Time(1, "Other")>>
WideRows ==
    { FullRow,
      <<Val("int64", 2), Null, Null, Null, Val("int64", 1), Null>>,
      \* a note the handler h1 refuses
      <<Val("int64", 3), Null, Val("int64", 1), Time(1, "UTC"), Val("int64", 2),
        Time(1, "UTC")>> }
NarrowColumns == <<"id", "age">>
NarrowRows ==
    { <<Val("int64", 1), Val("int64", 3)>>,
      \* an age that is no integer
      <<Val("int64", 2), Time(1, "UTC")>> }

\* the sequences of at most n elements of S
RECURSIVE SeqsUpTo(_, _)
SeqsUpTo(S, n) ==
    IF n = 0 THEN {<<>>}
    ELSE LET shorter == SeqsUpTo(S, n - 1)
         IN  shorter \cup {Append(s, x) : s \in {q \in shorter : Len(q) = n - 1}, x \in S}

\* the result sets of a query: at most one thing goes wrong in each
RowsOf(columns, data) ==
    {NewRows(columns, data, 0, 0, FALSE), NewRows(columns, data, 0, 0, TRUE)}
    \cup {NewRows(columns, data, k, 0, FALSE) : k \in 1..(Len(data) + 1)}
    \cup {NewRows(columns, data, 0, k, FALSE) : k \in 1..Len(data)}
ResultSets ==
    UNION ({RowsOf(WideColumns, data) : data \in SeqsUpTo(WideRows, MaxRows)}
           \cup {RowsOf(NarrowColumns, data) : data \in SeqsUpTo(NarrowRows, MaxRows)})

\* the result sets read into every destination
FewResultSets == RowsOf(WideColumns, <<>>) \cup RowsOf(WideColumns, <<FullRow>>)

\* a struct of the type whose fields all hold the content n
Filled(type, n) ==
    [i \in 1..Len(type.Fields) |->
        LET T == type.Fields[i].Type
        IN  IF T = "time.Time" THEN Time(n, "Other")
            ELSE IF T = "*time.Time" THEN Ref(Time(n, "Other"))
            ELSE Val(T, n)]

\* A destination is [t, type, nil, v]: the name of its type for the cache,
\* its type, whether it is a nil pointer, and what it points to.
Dest(t, type, v) == [t |-> t, type |-> type, nil |-> FALSE, v |-> v]
Destinations(type) ==
    \* a pointer to a struct in use
    {Dest("T", type, Filled(type, 5))}
    \* a pointer to a slice that holds an element
    \cup (IF type.Kind = "ptr"
          THEN {Dest("S", PtrToSlice(type), <<Filled(type, 5)>>)}
          ELSE {})
    \* a pointer to a zero struct, a pointer to a slice of structs, and a nil
    \* pointer to a slice
    \cup (IF type = Item
          THEN {Dest("T", type, ZeroStruct(type)),
                Dest("S", PtrToSlice(Bare), <<>>),
                [Dest("S", PtrToSlice(type), <<>>) EXCEPT !.nil = TRUE]}
          ELSE {})

\* before any call on the result set r with the destination d
NoScan(r, d) ==
    [op |-> "init", err |-> NoErr, log |-> <<>>, targets |-> <<>>, values |-> <<>>,
     calls |-> 0, scans |-> 0, before |-> d.v, rowsBefore |-> r]

\* what a call leaves in out
Called(op, s) ==
    [op |-> op, err |-> s.err, log |-> s.log, targets |-> s.targets, values |-> <<>>,
     calls |-> out.calls + 1, scans |-> out.scans + (IF op = "Scan" THEN 1 ELSE 0),
     before |-> dst.v, rowsBefore |-> rows]

InitScan ==
    /\ decl \in {[t \in TypeIds |-> IF t = "Person" THEN Person ELSE ty] : ty \in ScanTypes}
    /\ registry = ScanRegistry
    /\ fieldsCache = EmptyMap
    /\ ret = NoCall
    /\ gor = [g \in Callers |-> Idle]
    /\ crashed = FALSE
    /\ \/ /\ rows \in FewResultSets
          /\ dst \in Destinations(decl["T"])
       \/ /\ decl["T"] = Item
          /\ rows \in ResultSets
          /\ dst \in {Dest("T", Item, Filled(Item, 5)),
                       Dest("S", PtrToSlice(Item), <<Filled(Item, 5)>>)}
    /\ out = NoScan(rows, dst)
    /\ hook = <<>>
    /\ db = <<>>
    /\ stmtCache = <<>>

\* what every call of a scan leaves alone
ScanFrame == UNCHANGED <<decl, registry, ret, gor, crashed, hook, db, stmtCache>>

\* err := Scan(rows, dst)
CallScan ==
    /\ out.calls \in CallCounts
    /\ LET s == ScanResult(rows, dst.t, dst.type, dst.v, registry, fieldsCache)
       IN  /\ rows' = s.rows
           /\ dst' = [dst EXCEPT !.v = s.structVal]
           /\ fieldsCache' = s.cache
           /\ out' = Called("Scan", s)
    /\ ScanFrame

\* err := ScanRow(rows, dst)
CallScanRow ==
    /\ out.calls \in CallCounts
    /\ LET s == ScanRowResult(rows, dst.t, dst.type, dst.v, registry, fieldsCache)
       IN  /\ rows' = s.rows
           /\ dst' = [dst EXCEPT !.v = s.structVal]
           /\ fieldsCache' = s.cache
           /\ out' = Called("ScanRow", s)
    /\ ScanFrame

\* err := ScanAll(rows, dst)
CallScanAll ==
    /\ out.calls \in CallCounts
    /\ LET s == ScanAllResult(rows, dst, "T", registry, fieldsCache)
       IN  /\ rows' = s.rows
           /\ dst' = [dst EXCEPT !.v = s.structVal]
           /\ fieldsCache' = s.cache
           /\ out' = Called("ScanAll", s)
    /\ ScanFrame

\* values, err := Values(dst, includePk)
CallValues(includePk) ==
    /\ out.calls \in CallCounts
    /\ LET w == Values(dst.t, dst.type, dst.v, includePk, registry, fieldsCache)
       IN  /\ fieldsCache' = w.cache
           /\ out' = [Called("Values", Scanned(rows, dst.v, w.err, w.cache, w.log, <<>>))
                        EXCEPT !.values = w.values]
    /\ UNCHANGED <<rows, dst>>
    /\ ScanFrame

NextScan ==
    \/ CallScan
    \/ CallScanRow
    \/ CallScanAll
    \/ \E includePk \in BOOLEAN : CallValues(includePk)

SpecScan == InitScan /\ [][NextScan]_vars

----------------------------------------------------------------------------
(* Claims about row materialization *)

\* the field of a struct type a result column names: its place, 0 for none
FieldFor(type, c) ==
    LET S == {i \in 1..Len(type.Fields) :
                 Mapped(type.Fields[i]) /\ NameOf(type.Fields[i]) = c}
    IN  IF S = {} THEN 0 ELSE CHOOSE i \in S : TRUE

\* the database value v fits a Go type
Fits(v, T) == ~v.nil /\ (v.t = T \/ (v.t = "int64" /\ T \in {"int", "int64", "uint"}))

\* the database value v as a value of the type T, or as a pointer to one
As(v, T) == [t |-> T, n |-> v.n, loc |-> v.loc, nil |-> FALSE]
\* the time handlers: those that read into the local zone, those that take
\* the zero time for NULL
LocalHandlers == {"TimeMeddler{ZeroIsNull:false,Local:true}",
                  "TimeMeddler{ZeroIsNull:true,Local:true}"}
ZHandlers == {"TimeMeddler{ZeroIsNull:true,Local:true}",
              "TimeMeddler{ZeroIsNull:true,Local:false}"}
IsZ(m) == m \in ZHandlers
IsTimeHandler(m) ==
    m \in LocalHandlers \cup ZHandlers \cup {"TimeMeddler{ZeroIsNull:false,Local:false}"}
InZone(m, v) == [v EXCEPT !.loc = IF m \in LocalHandlers THEN "Local" ELSE "UTC"]
NilOf(T) == [t |-> T, n |-> 0, loc |-> "", nil |-> TRUE]
ZeroOf(T) ==
    IF T \in {"*int", "*time.Time"} THEN NilOf(T)
    ELSE [t |-> T, n |-> 0, loc |-> IF T = "time.Time" THEN "UTC" ELSE "", nil |-> FALSE]

\* a value scanned straight into a field of type T: into a pointer field NULL
\* gives nil, into any other field NULL cannot be scanned
Straight(T, v) ==
    IF T \in {"*int", "*time.Time"}
    THEN IF v.nil THEN [stage |-> "ok", v |-> NilOf(T)]
         ELSE IF Fits(v, IF T = "*int" THEN "int" ELSE "time.Time")
         THEN [stage |-> "ok", v |-> As(v, T)]
         ELSE [stage |-> "scan", v |-> v]
    ELSE IF Fits(v, T) THEN [stage |-> "ok", v |-> As(v, T)]
    ELSE [stage |-> "scan", v |-> v]

\* What reading the database value v into a field of type T through the
\* handler m comes to: the stage it fails at ("pre", "scan", "post"; "ok" for
\* none) and the value of the field after it.
Reads(m, T, v) ==
    CASE m = "IdentityMeddler" -> Straight(T, v)
      [] m = "ZeroIsNullMeddler" ->
            IF v.nil THEN [stage |-> "ok", v |-> ZeroOf(T)]
            ELSE IF Fits(v, T) THEN [stage |-> "ok", v |-> As(v, T)]
            ELSE [stage |-> "scan", v |-> v]
      [] IsTimeHandler(m) ->
            IF T \notin {"time.Time", "*time.Time"} \/ (IsZ(m) /\ T = "*time.Time")
            THEN [stage |-> "pre", v |-> v]
            ELSE IF IsZ(m) /\ v.nil THEN [stage |-> "ok", v |-> ZeroOf(T)]
            ELSE LET s == Straight(T, v)
                 IN  IF s.stage = "ok" /\ ~s.v.nil
                     THEN [stage |-> "ok", v |-> InZone(m, s.v)]
                     ELSE s
      [] OTHER ->
            LET s == Straight(T, v)
            IN  IF s.stage = "ok" /\ Refuses(m, s.v) THEN [stage |-> "post", v |-> s.v]
                ELSE s

\* reading column k of a row into the struct type
ReadsColumn(type, reg, columns, row, k) ==
    LET f == type.Fields[FieldFor(type, columns[k])]
    IN  Reads(ExpectedHandler(f, reg), f.Type, row[k])

\* the columns of a result set that name a field of the struct type
MappedColumns(type, columns) == {k \in 1..Len(columns) : FieldFor(type, columns[k]) # 0}

\* every column of the row can be read into the struct type
RowOk(type, reg, columns, row) ==
    \A k \in MappedColumns(type, columns) :
        ReadsColumn(type, reg, columns, row, k).stage = "ok"

\* the struct a row that can be read materializes to: each field a result
\* column names holds the value read, every other field what it held before
Materialized(type, reg, columns, row, before) ==
    [i \in 1..Len(type.Fields) |->
        LET S == {k \in MappedColumns(type, columns) : FieldFor(type, columns[k]) = i}
        IN  IF S = {} THEN before[i]
            ELSE ReadsColumn(type, reg, columns, row,
                             CHOOSE k \in S : \A j \in S : j <= k).v]

\* a destination Scan and ScanRow can fill
GoodStruct(d, reg) == d.t = "T" /\ ~d.nil /\ WellFormed(d.type, reg)

\* a row was pending when the last call began: the result set was open, had
\* a row left, and its fetch did not fail
Pending(r) == ~r.closed /\ r.pos < Len(r.data) /\ r.failAt # r.pos + 1

ReadOneRow ==
    /\ out.op \in {"Scan", "ScanRow"}
    /\ GoodStruct(dst, registry)
    /\ Pending(out.rowsBefore)

\* C12: when a row is read into a struct from a result set that has columns
\* the struct has no field for, and every value of the row can be read into
\* its field, the call succeeds (it returns nothing but an error the result
\* set itself reports after the row), the target list has one entry for each
\* result column in order, a throwaway target exactly for the columns without
\* a field, that target holds the value of its column and no field does, each
\* field a column names holds the value read, and every other field
\* (unexported, excluded or not selected) holds what it held before
C12_ExtraColumnsDiscarded ==
    LET rb  == out.rowsBefore
        row == rb.data[rb.pos + 1]
    IN  (ReadOneRow /\ RowOk(dst.type, registry, rb.columns, row)) =>
            /\ out.err \in {NoErr, ErrTrailing, ErrClose}
            /\ out.err = ErrTrailing => rb.trailAt = rb.pos + 1
            /\ out.err = ErrClose => (out.op = "ScanRow" /\ rb.closeErr)
            /\ Len(out.targets) = Len(rb.columns)
            /\ \A k \in 1..Len(rb.columns) :
                  LET i == FieldFor(dst.type, rb.columns[k])
                  IN  IF i = 0
                      THEN out.targets[k].via = "new" /\ out.targets[k].v = row[k]
                      ELSE /\ out.targets[k].via \in {"field", "aux"}
                           /\ out.targets[k].index = i
                           /\ dst.v[i] = ReadsColumn(dst.type, registry, rb.columns, row, k).v
            /\ \A i \in 1..Len(dst.v) :
                  (\A k \in 1..Len(rb.columns) : FieldFor(dst.type, rb.columns[k]) # i)
                      => dst.v[i] = out.before[i]

\* a row with a value in a column the struct has no field for has been read:
\* the value is in the throwaway target, the unexported and the excluded
\* field hold what they held, the others what the row gave them
C12_Witness ==
    /\ ReadOneRow /\ out.op = "Scan" /\ out.err = NoErr
    /\ out.rowsBefore.columns = WideColumns
    /\ Len(dst.v) = 7 /\ Len(out.targets) = 6
    /\ out.targets[2] = [via |-> "new", v |-> Val("string", 1), index |-> 0]
    /\ dst.v[5] = Val("int", 5) /\ dst.v[6] = Val("int", 5)
    /\ dst.v[1] = Val("int64", 1) /\ dst.v[2] = Val("int", 3)
    /\ dst.v[3] = Time(1, "UTC")

\* a row of two columns has been read into a struct of five mapped fields:
\* the fields that were not selected hold what they held
C12_NotSelectedWitness ==
    /\ ReadOneRow /\ out.op = "ScanRow" /\ out.err = NoErr
    /\ out.rowsBefore.columns = NarrowColumns
    /\ Len(dst.v) = 7 /\ Len(out.targets) = 2
    /\ dst.v[2] = Val("int", 3) /\ out.before[2] = Val("int", 5)
    /\ dst.v[4] = Val("int", 5) /\ dst.v[7] = Ref(Time(5, "Other"))

\* the least of a set of numbers
Least(S) == CHOOSE x \in S : \A y \in S : x <= y

\* the columns of a row that fail at a stage when read into the struct type
FailingAt(stage, type, reg, columns, row) ==
    {k \in MappedColumns(type, columns) :
        ReadsColumn(type, reg, columns, row, k).stage = stage}

\* The hook that fails when the row is read, and the column it fails for:
\* the pre-scan hook of the first column that has a failing one; if there is
\* none and the scan goes through, the post-scan hook of the first column
\* that has a failing one.
FailingHook(type, reg, columns, row) ==
    LET pre  == FailingAt("pre", type, reg, columns, row)
        scan == FailingAt("scan", type, reg, columns, row)
        post == FailingAt("post", type, reg, columns, row)
    IN  IF pre # {} THEN [hook |-> "PreRead", k |-> Least(pre)]
        ELSE IF scan = {} /\ post # {} THEN [hook |-> "PostRead", k |-> Least(post)]
        ELSE [hook |-> "none", k |-> 0]

\* the columns a hook was invoked for, by the record of the call
Invoked(h, columns) ==
    {k \in 1..Len(columns) : \E j \in 1..Len(out.log) : out.log[j] = Ev(h, columns[k])}

\* the pre-write hook of the handler m fails for the value v of a field
WriteFails(m, v) ==
    \/ Refuses(m, v)
    \/ IsTimeHandler(m) /\ v.t \notin {"time.Time", "*time.Time"}
    \/ m = "ZeroIsNullMeddler"
          /\ v.t \notin {"int", "int64", "uint", "float64", "complex128", "string"}

\* the mapped fields of the destination whose pre-write hook fails
FailingWrites ==
    {i \in 1..Len(dst.type.Fields) :
        /\ Mapped(dst.type.Fields[i])
        /\ WriteFails(ExpectedHandler(dst.type.Fields[i], registry), dst.v[i])}

\* C13: when a hook fails while a row is read into a struct, the call returns
\* an error that names the column and carries the cause, the failing
\* invocation is the last thing the call did, each hook was invoked for the
\* mapped columns up to that one and for no later column, a failure before
\* the scan leaves the struct as it was, and after a failure of a post-scan
\* hook the fields of the columns before it hold their converted values;
\* when a pre-write hook fails in Values, the call returns an error that
\* names the column and no value list, and no hook was invoked after it
C13_HookFailureStops ==
    /\ LET rb  == out.rowsBefore
           row == rb.data[rb.pos + 1]
           f   == FailingHook(dst.type, registry, rb.columns, row)
           upTo == {j \in MappedColumns(dst.type, rb.columns) : j <= f.k}
       IN  (ReadOneRow /\ f.hook # "none") =>
               /\ out.err # NoErr /\ out.err.field = rb.columns[f.k] /\ out.err.arg # ""
               /\ out.log # <<>> /\ out.log[Len(out.log)] = Ev(f.hook, rb.columns[f.k])
               /\ Invoked(f.hook, rb.columns) = upTo
               /\ f.hook = "PreRead" =>
                     /\ dst.v = out.before
                     /\ Invoked("PostRead", rb.columns) = {}
                     /\ \A j \in 1..Len(out.log) : out.log[j].ev # "Scan"
               /\ f.hook = "PostRead" =>
                     /\ Invoked("PreRead", rb.columns) = MappedColumns(dst.type, rb.columns)
                     /\ \A j \in upTo \ {f.k} :
                           dst.v[FieldFor(dst.type, rb.columns[j])]
                               = ReadsColumn(dst.type, registry, rb.columns, row, j).v
    /\ (out.op = "Values" /\ GoodStruct(dst, registry) /\ FailingWrites # {}) =>
          LET c == NameOf(dst.type.Fields[Least(FailingWrites)])
          IN  /\ out.err # NoErr /\ out.err.field = c /\ out.err.arg # ""
              /\ out.values = <<>>
              /\ out.log # <<>> /\ out.log[Len(out.log)] = Ev("PreWrite", c)

\* the post-scan hook of the note has refused its value: the age and the
\* closing time before it are converted, the update time after it is as the
\* scan left it, and the error names the note
C13_Witness ==
    /\ ReadOneRow /\ out.op = "Scan"
    /\ out.err.msg = "meddler.WriteTargets: PostRead error on column"
    /\ out.err.field = "note" /\ out.err.arg = "refused"
    /\ dst.v[2] = Val("int", 1) /\ dst.v[3] = Time(1, "UTC")
    /\ dst.v[4] = Val("int", 2)
    /\ dst.v[7] = Ref(Time(1, "UTC"))

\* the pre-scan hook of the second mapped column has failed
C13_PreReadWitness ==
    /\ ReadOneRow /\ out.err.msg = "meddler.Targets: PreRead error on column"
    /\ out.err.field = "closed" /\ dst.v = out.before
    /\ out.log = <<Ev("Next", ""), Ev("PreRead", "id"), Ev("PreRead", "closed")>>

\* the pre-write hook of the note has refused the value a scan left there
C13_PreWriteWitness ==
    /\ out.op = "Values" /\ GoodStruct(dst, registry)
    /\ out.err.msg = "meddler.SomeValues: PreWrite error on column"
    /\ out.err.field = "note" /\ out.values = <<>>
    /\ dst.v[4] = Val("int", 2)

\* a destination ScanAll can fill: a pointer to a slice of pointers to structs
GoodSlice(d, reg) ==
    /\ ~d.nil /\ d.type.Kind = "ptr" /\ d.type.Elem = "slice"
    /\ WellFormed(d.type.Of, reg)

\* row k of the result set cannot be delivered: its fetch fails, one of its
\* values cannot be read into the struct type, or the result set reports an
\* error after it
RowFails(type, reg, r, k) ==
    \/ r.failAt = k
    \/ /\ k <= Len(r.data)
       /\ (~RowOk(type, reg, r.columns, r.data[k]) \/ r.trailAt = k)

\* the row at which a batch read of the result set stops: the first that
\* cannot be delivered, the place after the last row if there is none
StopsAt(type, reg, r) ==
    Least({k \in (r.pos + 1)..(Len(r.data) + 1) :
              RowFails(type, reg, r, k) \/ k = Len(r.data) + 1})

\* a fresh element of the struct type
Fresh(type) == [i \in 1..Len(type.Fields) |-> ZeroOf(type.Fields[i].Type)]

\* C14: ScanAll, called with a pointer to a slice of pointers to structs on
\* an open result set, leaves the slice equal to what it held followed by the
\* materialization into a fresh element of each row before the first that
\* cannot be delivered, in row order; it never returns ErrNoRows; it returns
\* nil when it stops for want of rows, the error of the fetch or of the
\* result set when that stops it, and an error otherwise
C14_ScanAllAppends ==
    (out.op = "ScanAll" /\ GoodSlice(dst, registry) /\ ~out.rowsBefore.closed) =>
        LET rb   == out.rowsBefore
            type == dst.type.Of
            stop == StopsAt(type, registry, rb)
            new  == stop - rb.pos - 1
        IN  /\ Len(dst.v) = Len(out.before) + new
            /\ \A j \in 1..Len(out.before) : dst.v[j] = out.before[j]
            /\ \A j \in 1..new :
                  dst.v[Len(out.before) + j]
                      = Materialized(type, registry, rb.columns, rb.data[rb.pos + j],
                                     Fresh(type))
            /\ out.err # ErrNoRows
            /\ IF ~RowFails(type, registry, rb, stop) THEN out.err = NoErr
               ELSE IF rb.failAt = stop THEN out.err = ErrFetch
               ELSE IF ~RowOk(type, registry, rb.columns, rb.data[stop])
               THEN out.err \notin {NoErr, ErrFetch, ErrTrailing}
               ELSE out.err = ErrTrailing

\* ScanAll has read two rows into a slice that held an element: the element
\* is still the first, the rows follow in order
C14_Witness ==
    /\ out.op = "ScanAll" /\ GoodSlice(dst, registry) /\ out.err = NoErr
    /\ Len(out.before) = 1 /\ Len(dst.v) = 3
    /\ dst.v[1] = out.before[1]
    /\ dst.v[2][1] = Val("int64", 1) /\ dst.v[3][1] = Val("int64", 2)
    /\ dst.v[3][2] = Val("int", 0) /\ dst.v[3][5] = Val("int", 0)

\* ScanAll has stopped at a second row whose note the handler refuses: the
\* first row is appended, the second is not
C14_FailureWitness ==
    /\ out.op = "ScanAll" /\ GoodSlice(dst, registry)
    /\ out.err.msg = "meddler.WriteTargets: PostRead error on column"
    /\ Len(out.rowsBefore.data) = 2 /\ out.rowsBefore.pos = 0
    /\ Len(dst.v) = Len(out.before) + 1
    /\ dst.v[Len(dst.v)][1] = Val("int64", 1)

\* C15: when ScanRow or ScanAll has returned, whatever it returns and
\* whatever the destination is, it has called Close and the result set is
\* closed; ScanRow has fetched at most one row; Scan has not called Close,
\* and the result set is open after it unless it was closed before or there
\* was no row to fetch
C15_ClosedOnEveryReturn ==
    LET rb == out.rowsBefore
    IN  /\ out.op \in {"ScanRow", "ScanAll"} =>
              rows.closed /\ rows.closes > rb.closes
        /\ out.op = "ScanRow" => rows.pos <= rb.pos + 1
        /\ out.op = "Scan" =>
              /\ rows.closes = rb.closes
              /\ rows.closed => (rb.closed \/ ~Pending(rb))

\* ScanRow has read the first of two rows and closed the result set
C15_Witness ==
    /\ out.op = "ScanRow" /\ out.err = NoErr
    /\ rows.closed /\ rows.pos = 1 /\ Len(rows.data) = 2
    /\ out.rowsBefore.pos = 0 /\ ~out.rowsBefore.closed

\* ScanRow has refused a destination that is no pointer, on a result set
\* with a row pending, and closed the result set
C15_InvalidDestinationWitness ==
    /\ out.op = "ScanRow" /\ out.err.msg = "non-pointer destination"
    /\ Pending(out.rowsBefore) /\ rows.closed /\ rows.pos = 0

\* ScanAll has failed to derive the metadata of the element type and closed
\* the result set
C15_DerivationWitness ==
    /\ out.op = "ScanAll" /\ out.err.msg = "multiple fields for column"
    /\ Pending(out.rowsBefore) /\ rows.closed /\ rows.pos = 0

\* every row the result set has left can be delivered into the struct type
AllDeliverable(type, reg, r) ==
    /\ ~r.closed
    /\ StopsAt(type, reg, r) = Len(r.data) + 1
    /\ ~RowFails(type, reg, r, Len(r.data) + 1)

\* the destination points to a slice whose elements are structs, or pointers
\* to structs, of a type whose fields are in order
SliceOf(kind, d, reg) ==
    /\ ~d.nil /\ d.type.Kind = "ptr" /\ d.type.Elem = "slice"
    /\ d.type.Of.Kind = kind
    /\ WellFormed(PtrTo(d.type.Of.Fields), reg)

\* ScanAll has appended an element for each row the result set had left
AppendedAll ==
    /\ out.err = NoErr
    /\ Len(dst.v) = Len(out.before) + Len(out.rowsBefore.data) - out.rowsBefore.pos

\* C16: ScanAll accepts a pointer to a slice of structs and appends to it as
\* many elements as the result set has rows
C16_SliceOfStructsAccepted ==
    (/\ out.op = "ScanAll" /\ SliceOf("struct", dst, registry)
     /\ AllDeliverable(PtrTo(dst.type.Of.Fields), registry, out.rowsBefore))
        => AppendedAll

\* what ScanAll does: it accepts a pointer to a slice of pointers to structs
\* and appends to it as many elements as the result set has rows; a pointer
\* to a slice of structs it refuses with an error, and appends nothing
SliceOfPointersAccepted ==
    /\ (/\ out.op = "ScanAll" /\ SliceOf("ptr", dst, registry)
        /\ AllDeliverable(dst.type.Of, registry, out.rowsBefore))
           => AppendedAll
    /\ (out.op = "ScanAll" /\ SliceOf("struct", dst, registry)) =>
           /\ out.err.msg = "ScanAll expects element to be pointers"
           /\ dst.v = out.before
           /\ rows.pos = out.rowsBefore.pos

\* ScanAll has appended the one row of a result set to a slice of pointers
\* that held an element
SliceOfPointersWitness ==
    /\ out.op = "ScanAll" /\ SliceOf("ptr", dst, registry) /\ AppendedAll
    /\ Len(out.rowsBefore.data) = 1 /\ out.rowsBefore.pos = 0
    /\ Len(out.before) = 1 /\ Len(dst.v) = 2

\* ScanAll has refused a slice of structs while a row was pending
C16_RefusedWitness ==
    /\ out.op = "ScanAll" /\ SliceOf("struct", dst, registry)
    /\ Pending(out.rowsBefore) /\ out.err # NoErr /\ dst.v = <<>>

----------------------------------------------------------------------------
(* One field written and read back: Values, then the database, then scanRow *)

\* what the driver stores of a value it is handed: nothing of a nil, the
\* content of a pointer, an integer as an int64
Stored(v) ==
    IF v.nil THEN Null
    ELSE LET d == IF v.t \in PtrTypes THEN Deref(v) ELSE v
         IN  IF d.t \in IntegerTypes THEN [d EXCEPT !.t = "int64"] ELSE d

\* what the driver hands to a scan of a stored value: a time comes back in
\* the location zone
Fetched(saved, zone) ==
    IF ~saved.nil /\ saved.t = "time.Time" THEN [saved EXCEPT !.loc = zone] ELSE saved

\* what reading a field leaves behind
ReadOf(field, err, failed, scanned) ==
    [field |-> field, err |-> err, failed |-> failed, scanned |-> scanned]

\* scanRow for a result set of one column that names a field with the handler
\* m: the hook before the scan, the scan, the hook after it; before is what
\* the field holds, src what the driver hands over
ReadBack(m, before, src) ==
    LET p == PreRead(m, before)
    IN  IF p.err # NoErr THEN ReadOf(before, p.err, "pre", FALSE)
        ELSE
        LET tg == [via |-> p.v.via, v |-> p.v.v, index |-> 1]
            sc == ScanLoop(<<src>>, 1, <<tg>>, <<before>>)
        IN  IF sc.err # NoErr THEN ReadOf(sc.structVal[1], sc.err, "scan", TRUE)
            ELSE
            LET q == PostRead(m, sc.structVal[1],
                              IF tg.via = "field" THEN Target("field", sc.structVal[1])
                              ELSE Target(tg.via, sc.targets[1].v))
            IN  IF q.err # NoErr THEN ReadOf(sc.structVal[1], q.err, "post", TRUE)
                ELSE ReadOf(q.v, NoErr, "none", TRUE)

\* the locations of a time
Zones == {"UTC", "Local", "Other"}

RECURSIVE ValuesOf(_)
\* the values of a field of a type: false and true, the zero value and two
\* others, the zero
\* instant and another in each location, and for a pointer nil as well
ValuesOf(T) ==
    IF T = "bool" THEN {Val(T, n) : n \in {0, 1}}
    ELSE IF T \in ScalarTypes THEN {Val(T, n) : n \in {0, 1, 2}}
    ELSE IF T = "time.Time" THEN {Time(n, z) : n \in {0, 1}, z \in Zones}
    ELSE {Zero(T)} \cup {Ref(v) : v \in ValuesOf(ElemOf(T))}
\* the types of the field, and the handlers it is bound to
HookTypes == ScalarTypes \cup {"time.Time", "*time.Time", "*int"}
HookHandlers == {BuiltinRegistry[n] : n \in DOMAIN BuiltinRegistry} \cup {"h1"}

\* A field with the handler m that holds v, before it is written: stage is
\* "new", then "written" or "unwritten" (the hook failed), then "read"; saved
\* is what the database holds, before what the field held when it was read,
\* field what it holds after, failed the step of the read that failed, scanned
\* whether the scan took place.
NewHook(m, v) ==
    [m |-> m, v |-> v, stage |-> "new", saved |-> Null, werr |-> NoErr,
     before |-> v, field |-> v, rerr |-> NoErr, failed |-> "none", scanned |-> FALSE]

InitHooks ==
    /\ decl = [t \in TypeIds |-> Person]
    /\ registry = BuiltinRegistry
    /\ fieldsCache = EmptyMap
    /\ ret = NoCall
    /\ gor = [g \in Callers |-> Idle]
    /\ crashed = FALSE
    /\ rows = <<>>
    /\ dst = <<>>
    /\ out = <<>>
    /\ hook \in {NewHook(m, v) : m \in HookHandlers,
                                 v \in UNION {ValuesOf(T) : T \in HookTypes}}
    /\ db = <<>>
    /\ stmtCache = <<>>

\* the field is written: SomeValues calls PreWrite, the driver stores the value
HookWrite ==
    /\ hook.stage = "new"
    /\ LET p == PreWrite(hook.m, hook.v)
       IN  hook' = IF p.err # NoErr
                   THEN [hook EXCEPT !.stage = "unwritten", !.werr = p.err]
                   ELSE [hook EXCEPT !.stage = "written", !.saved = Stored(p.v)]
    /\ UNCHANGED <<decl, registry, fieldsCache, ret, gor, crashed, rows, dst, out, db, stmtCache>>

\* the stored value is read into a field of the same type that holds before
HookRead(before, zone) ==
    /\ hook.stage = "written"
    /\ LET r == ReadBack(hook.m, before, Fetched(hook.saved, zone))
       IN  hook' = [hook EXCEPT !.stage = "read", !.before = before, !.field = r.field,
                                !.rerr = r.err, !.failed = r.failed,
                                !.scanned = r.scanned]
    /\ UNCHANGED <<decl, registry, fieldsCache, ret, gor, crashed, rows, dst, out, db, stmtCache>>

NextHooks ==
    \/ HookWrite
    \/ \E before \in ValuesOf(hook.v.t), zone \in Zones : HookRead(before, zone)

SpecHooks == InitHooks /\ [][NextHooks]_vars
----------------------------------------------------------------------------
(* The time handlers and zeroisnull, a field at a time *)

\* the two forms of a time field
TimeForms == {"time.Time", "*time.Time"}
\* the instant n as the driver holds it, and as a field of type T holds it in
\* the zone of the handler m
UTCTime(n) == [t |-> "time.Time", n |-> n, loc |-> "UTC", nil |-> FALSE]
ZonedAs(m, T, n) ==
    [t |-> T, n |-> n, loc |-> IF m \in LocalHandlers THEN "Local" ELSE "UTC", nil |-> FALSE]
\* NULL in the database
StoredNull == NilOf("nil")
\* the field has been written, with or without success
Written == hook.stage # "new"
WasRead == hook.stage = "read"

\* C17: with a zeroMeansNull time handler the zero time of a time.Time field
\* is written as NULL, and reading that NULL sets the field to the zero time,
\* for both values of Local and whatever the field held; with a time handler
\* without zeroMeansNull the zero time is written as a time in UTC.
C17_ZeroTimeIsNull ==
    (Written /\ IsTimeHandler(hook.m) /\ hook.v.t = "time.Time" /\ hook.v.n = 0) =>
        /\ hook.stage # "unwritten"
        /\ IF IsZ(hook.m)
           THEN /\ hook.saved = StoredNull
                /\ WasRead => (hook.rerr = NoErr /\ hook.field = ZeroOf("time.Time"))
           ELSE hook.saved = UTCTime(0)

\* the zero time was written with localtimez and read into a field that held
\* another time
C17_Witness ==
    /\ WasRead
    /\ hook.m = "TimeMeddler{ZeroIsNull:true,Local:true}"
    /\ hook.v = [t |-> "time.Time", n |-> 0, loc |-> "Other", nil |-> FALSE]
    /\ hook.saved = StoredNull
    /\ hook.before = [t |-> "time.Time", n |-> 1, loc |-> "Other", nil |-> FALSE]
    /\ hook.field = ZeroOf("time.Time")

\* the zero time was written with utctime, as a time
C17_NotNullWitness ==
    /\ hook.stage = "written"
    /\ hook.m = "TimeMeddler{ZeroIsNull:false,Local:false}"
    /\ hook.v = [t |-> "time.Time", n |-> 0, loc |-> "Local", nil |-> FALSE]
    /\ hook.saved = UTCTime(0)

\* C18 as stated: for every time handler and both forms of the field, a time
\* that is not zero is written as the same instant in UTC and read back as
\* the same instant in the zone of the handler, a nil pointer is written as
\* NULL, and NULL is read into a pointer field as nil.
C18_EveryTimeHandlerRoundTrips ==
    (Written /\ IsTimeHandler(hook.m) /\ hook.v.t \in TimeForms) =>
        IF hook.v.nil
        THEN /\ hook.stage # "unwritten"
             /\ hook.saved = StoredNull
             /\ WasRead => (hook.rerr = NoErr /\ hook.field = NilOf("*time.Time"))
        ELSE hook.v.n # 0 =>
                /\ hook.stage # "unwritten"
                /\ hook.saved = UTCTime(hook.v.n)
                /\ WasRead => (/\ hook.rerr = NoErr
                               /\ hook.field = ZonedAs(hook.m, hook.v.t, hook.v.n))

\* a zeroMeansNull time handler on a *time.Time field
ZOnReference == IsZ(hook.m) /\ hook.v.t = "*time.Time"

\* C18: for every time handler and both forms of the field, a time that is
\* not zero is written as the same instant in UTC and a nil pointer as NULL;
\* unless the handler is zeroMeansNull and the field a pointer, the time is
\* read back as the same instant in the zone of the handler, and NULL is read
\* into a pointer field as nil.
C18_TimeRoundTrip ==
    (Written /\ IsTimeHandler(hook.m) /\ hook.v.t \in TimeForms) =>
        IF hook.v.nil
        THEN /\ hook.stage # "unwritten"
             /\ hook.saved = StoredNull
             /\ (WasRead /\ ~ZOnReference) =>
                    (hook.rerr = NoErr /\ hook.field = NilOf("*time.Time"))
        ELSE hook.v.n # 0 =>
                /\ hook.stage # "unwritten"
                /\ hook.saved = UTCTime(hook.v.n)
                /\ (WasRead /\ ~ZOnReference) =>
                        (/\ hook.rerr = NoErr
                         /\ hook.field = ZonedAs(hook.m, hook.v.t, hook.v.n))

\* a time of another zone was written through a pointer with localtime, and
\* read back in the local zone into a field that held nil
C18_Witness ==
    /\ WasRead
    /\ hook.m = "TimeMeddler{ZeroIsNull:false,Local:true}"
    /\ hook.v = [t |-> "*time.Time", n |-> 1, loc |-> "Other", nil |-> FALSE]
    /\ hook.saved = UTCTime(1)
    /\ hook.before = NilOf("*time.Time")
    /\ hook.field = [t |-> "*time.Time", n |-> 1, loc |-> "Local", nil |-> FALSE]

\* a nil pointer was written with utctime and read into a field that held a time
C18_NilWitness ==
    /\ WasRead
    /\ hook.m = "TimeMeddler{ZeroIsNull:false,Local:false}"
    /\ hook.v = NilOf("*time.Time")
    /\ ~hook.before.nil
    /\ hook.field = NilOf("*time.Time")

\* C19: a zeroMeansNull time handler on a *time.Time field fails on every
\* read, and not on the write: the hook before the scan returns the error,
\* no scan takes place and the field keeps what it held.
C19_ZeroNullOnReferenceFails ==
    (Written /\ ZOnReference) =>
        /\ hook.stage # "unwritten"
        /\ WasRead => (/\ hook.rerr # NoErr
                       /\ hook.failed = "pre"
                       /\ ~hook.scanned
                       /\ hook.field = hook.before)

\* a time was written through a pointer with utctimez, and read into a field
\* that held another time
C19_Witness ==
    /\ WasRead
    /\ hook.m = "TimeMeddler{ZeroIsNull:true,Local:false}"
    /\ hook.v = [t |-> "*time.Time", n |-> 1, loc |-> "Local", nil |-> FALSE]
    /\ hook.saved = UTCTime(1)
    /\ hook.before = [t |-> "*time.Time", n |-> 0, loc |-> "Other", nil |-> FALSE]
    /\ hook.rerr # NoErr

\* the types the zeroisnull handler is meant for
ZeroIsNullTypes == {"int", "int64", "uint", "float64", "complex128", "string", "bool"}

\* the round trip of the value of the field through the handler of the field
RoundTrips ==
    /\ hook.stage # "unwritten"
    /\ IF hook.v.n = 0
       THEN hook.saved = StoredNull
       ELSE ~hook.saved.nil /\ hook.saved.n = hook.v.n
    /\ WasRead => (hook.rerr = NoErr /\ hook.field = hook.v)

\* C20: with zeroisnull on an integer, float, complex, string or bool field,
\* the zero value is written as NULL and read back as the zero value whatever
\* the field held, and any other value is stored as it is and read back as it
\* was.
C20_ZeroIsNullRoundTrip ==
    (Written /\ hook.m = "ZeroIsNullMeddler" /\ hook.v.t \in ZeroIsNullTypes) => RoundTrips

\* the same for every type but bool
NumbersAndStringsRoundTrip ==
    (Written /\ hook.m = "ZeroIsNullMeddler" /\ hook.v.t \in ZeroIsNullTypes \ {"bool"})
        => RoundTrips

\* a zero int was written with zeroisnull and read into a field that held 2
NumbersAndStringsWitness ==
    /\ WasRead
    /\ hook.m = "ZeroIsNullMeddler"
    /\ hook.v = [t |-> "int", n |-> 0, loc |-> "", nil |-> FALSE]
    /\ hook.saved = StoredNull
    /\ hook.before.n = 2
    /\ hook.field = hook.v

\* the write of a bool field with zeroisnull fails
C20_BoolRefusedWitness ==
    /\ hook.stage = "unwritten"
    /\ hook.m = "ZeroIsNullMeddler"
    /\ hook.v = [t |-> "bool", n |-> 0, loc |-> "", nil |-> FALSE]
    /\ hook.werr # NoErr

----------------------------------------------------------------------------
(* zeroisnull on a pointer field *)

\* a mapped field of the type is a pointer and carries the directive zeroisnull
HasPointerZeroIsNull(type) ==
    /\ type.Kind = "ptr"
    /\ type.Elem = "struct"
    /\ \E i \in 1..Len(type.Fields) :
          LET f == type.Fields[i]
          IN  /\ f.PkgPath = ""
              /\ f.Tag[1] # "-"
              /\ f.Kind = "ptr"
              /\ \E j \in 2..Len(f.Tag) : f.Tag[j] = "zeroisnull"

\* C21: getFields of a type with a pointer field marked zeroisnull returns an
\* error and caches nothing.
C21_PointerZeroIsNullRejected ==
    (ret.op = "getFields" /\ HasPointerZeroIsNull(decl[ret.arg])) =>
        (ret.err # NoErr /\ ret.arg \notin DOMAIN fieldsCache)

\* getFields has accepted and cached a struct whose only field is a pointer
\* marked zeroisnull
C21_AcceptedWitness ==
    /\ ret.op = "getFields"
    /\ ret.err = NoErr
    /\ Len(decl["T"].Fields) = 1
    /\ HasPointerZeroIsNull(decl["T"])
    /\ "T" \in DOMAIN fieldsCache
    /\ fieldsCache["T"].fields[ret.data.columns[1]].meddler = "ZeroIsNullMeddler"

\* the write of a pointer field with zeroisnull fails in PreWrite
PointerZeroIsNullFailsAtWrite ==
    (hook.m = "ZeroIsNullMeddler" /\ hook.v.t = "*int" /\ hook.stage # "new") =>
        (hook.stage = "unwritten" /\ hook.werr # NoErr)

----------------------------------------------------------------------------
(* The serialization handlers json, jsongzip, gob and gobgzip, bound to a  *)
(* field of type map[string]bool.  A map is [nil, m]: whether it is the    *)
(* nil map, and its entries as a function.  A []byte is [gz, format,       *)
(* entries]: whether it is a gzip stream, the encoding, and the entries    *)
(* in the order they were encoded.                                         *)

\* the registrations of the four handlers
SerialRegistry ==
    [n \in {"json", "jsongzip", "gob", "gobgzip"} |->
        CASE n = "json"     -> "JSONMeddler(false)"
          [] n = "jsongzip" -> "JSONMeddler(true)"
          [] n = "gob"      -> "GobMeddler(false)"
          [] n = "gobgzip"  -> "GobMeddler(true)"]
SerialHandlers == {SerialRegistry[n] : n \in DOMAIN SerialRegistry}

\* the encoding of a handler, and whether it compresses
Format(m) == IF m \in {"JSONMeddler(false)", "JSONMeddler(true)"} THEN "json" ELSE "gob"
Compressed(m) == m \in {"JSONMeddler(true)", "GobMeddler(true)"}

\* the keys of the maps, the nil map and the maps that are not nil
Keys == {"hello", "world"}
NilMap == [nil |-> TRUE, m |-> EmptyMap]
MakeMap(f) == [nil |-> FALSE, m |-> f]
Maps == {MakeMap(f) : f \in UNION {[D -> BOOLEAN] : D \in SUBSET Keys}}

\* the orders an iteration over the keys of a map can take
IterationOrders(f) ==
    {o \in [1..Cardinality(DOMAIN f.m) -> DOMAIN f.m] :
        \A i, j \in DOMAIN o : i # j => o[i] # o[j]}

\* the encoder: the entries of the map in the order of the iteration
Marshal(format, f, order) ==
    [gz |-> FALSE, format |-> format,
     entries |-> [i \in DOMAIN order |-> <<order[i], f.m[order[i]]>>]]

\* gzip and gunzip of a []byte
Gzip(b) == [b EXCEPT !.gz = TRUE]
Gunzip(b) ==
    IF b.gz THEN Hooked([b EXCEPT !.gz = FALSE], NoErr)
    ELSE Hooked(b, Errorf("gzip: invalid header", "", ""))

\* the decoder merges the entries into the map the field holds
UnmarshalMerged(format, b, f) ==
    IF b.gz \/ b.format # format
    THEN Hooked(f, Errorf("decode error", "", format))
    ELSE LET ks == {b.entries[i][1] : i \in DOMAIN b.entries}
         IN  Hooked(MakeMap([k \in ks \cup DOMAIN f.m |->
                         IF k \in ks
                         THEN (CHOOSE e \in {b.entries[i] : i \in DOMAIN b.entries} :
                                    e[1] = k)[2]
                         ELSE f.m[k]]), NoErr)

\* the decoder: the field f is replaced by a map of the entries of b
Unmarshal(format, b, f) ==
    IF b.gz \/ b.format # format
    THEN Hooked(f, Errorf("decode error", "", format))
    ELSE LET ks == {b.entries[i][1] : i \in DOMAIN b.entries}
         IN  Hooked(MakeMap([k \in ks |->
                         (CHOOSE e \in {b.entries[i] : i \in DOMAIN b.entries} :
                              e[1] = k)[2]]), NoErr)

\* PreWrite: the field is encoded, and compressed by the gzip variants
SerialPreWrite(m, f, order) ==
    IF Compressed(m)
    THEN Hooked(Gzip(Marshal(Format(m), f, order)), NoErr)
    ELSE Hooked(Marshal(Format(m), f, order), NoErr)

\* PostRead once the bytes are decompressed
SerialDecode(m, f, raw) ==
    IF raw.err # NoErr THEN Hooked(f, raw.err) ELSE Unmarshal(Format(m), raw.v, f)

\* PostRead: the scanned bytes are decompressed by the gzip variants and
\* decoded into the field
SerialPostRead(m, f, scanned) ==
    SerialDecode(m, f, IF Compressed(m) THEN Gunzip(scanned) ELSE Hooked(scanned, NoErr))

\* a field with the handler m that holds the map v, before it is written
NewSerial(m, v) ==
    [m |-> m, v |-> v, stage |-> "new", saved |-> <<>>, werr |-> NoErr,
     before |-> v, field |-> v, rerr |-> NoErr]

InitSerial ==
    /\ decl = [t \in TypeIds |-> Person]
    /\ registry = BuiltinRegistry @@ SerialRegistry
    /\ fieldsCache = EmptyMap
    /\ ret = NoCall
    /\ gor = [g \in Callers |-> Idle]
    /\ crashed = FALSE
    /\ rows = <<>>
    /\ dst = <<>>
    /\ out = <<>>
    /\ hook \in {NewSerial(m, v) : m \in SerialHandlers, v \in Maps}
    /\ db = <<>>
    /\ stmtCache = <<>>

\* what a write leaves in hook
SerialWritten(p) ==
    IF p.err # NoErr
    THEN [hook EXCEPT !.stage = "unwritten", !.werr = p.err]
    ELSE [hook EXCEPT !.stage = "written", !.saved = p.v]

\* Save: PreWrite of the field, whose map is iterated in the order order;
\* the driver stores the bytes
SerialWrite(order) ==
    /\ hook.stage = "new"
    /\ hook' = SerialWritten(SerialPreWrite(hook.m, hook.v, order))
    /\ UNCHANGED <<decl, registry, fieldsCache, ret, gor, crashed, rows, dst, out, db, stmtCache>>

\* what a read into a field that held before leaves in hook
SerialReadInto(before, q) ==
    [hook EXCEPT !.stage = "read", !.before = before, !.field = q.v, !.rerr = q.err]

\* Load: the stored bytes are scanned into a new []byte and PostRead decodes
\* them into a field that holds before
SerialRead(before) ==
    /\ hook.stage = "written"
    /\ hook' = SerialReadInto(before, SerialPostRead(hook.m, before, hook.saved))
    /\ UNCHANGED <<decl, registry, fieldsCache, ret, gor, crashed, rows, dst, out, db, stmtCache>>

NextSerial ==
    \/ \E order \in IterationOrders(hook.v) : SerialWrite(order)
    \/ \E before \in Maps \cup {NilMap} : SerialRead(before)

SpecSerial == InitSerial /\ [][NextSerial]_vars

\* C22: with json, jsongzip, gob and gobgzip the write succeeds, and the
\* read succeeds and leaves in the field a map equal to the one written,
\* whatever the order the map was encoded in and whatever the field held.
C22_SerialRoundTrip ==
    /\ hook.stage # "unwritten"
    /\ hook.stage = "read" => (hook.rerr = NoErr /\ hook.field = hook.v)

\* a map of one entry was written with gobgzip and read into a field that
\* held a map with another key
C22_Witness ==
    /\ hook.stage = "read"
    /\ hook.m = "GobMeddler(true)"
    /\ DOMAIN hook.v.m = {"hello"}
    /\ hook.saved.gz
    /\ "world" \in DOMAIN hook.before.m
    /\ hook.field = hook.v

\* a map of two entries was encoded with json in the order world, hello
C22_OrderWitness ==
    /\ hook.stage = "read"
    /\ hook.m = "JSONMeddler(false)"
    /\ Len(hook.saved.entries) = 2
    /\ hook.saved.entries[1][1] = "world"
    /\ hook.before = NilMap
    /\ hook.field = hook.v

----------------------------------------------------------------------------
(* The write side: sqlscan.go *)

\* var Quote, set for postgresql
Quote == "\""

\* strings.Join(list, sep)
RECURSIVE Join(_, _)
Join(list, sep) ==
    IF list = <<>> THEN ""
    ELSE IF Len(list) = 1 THEN list[1]
    ELSE list[1] \o sep \o Join(Tail(list), sep)

\* strings.Replace(s, "1", by, 1) of a string s kept as the list of its
\* characters
RECURSIVE ReplaceOne(_, _)
ReplaceOne(s, by) ==
    IF s = <<>> THEN ""
    ELSE IF Head(s) = "1" THEN by \o Join(Tail(s), "")
    ELSE Head(s) \o ReplaceOne(Tail(s), by)

\* every placeholder carries the number 1
PlaceholderAtUnnumbered(placeholder, n) == ReplaceOne(placeholder, ToString(1))

\* the placeholder of position n
PlaceholderAt(placeholder, n) == ReplaceOne(placeholder, ToString(n))

\* the loop of ColumnsQuoted
RECURSIVE QuoteLoop(_, _, _)
QuoteLoop(unquoted, k, list) ==
    IF k > Len(unquoted) THEN list
    ELSE QuoteLoop(unquoted, k + 1, Append(list, Quote \o unquoted[k] \o Quote))

\* ColumnsQuoted once Columns has returned c
ColumnsQuotedOf(c) ==
    IF c.err # NoErr THEN [s |-> "", err |-> c.err, cache |-> c.cache]
    ELSE [s |-> Join(QuoteLoop(c.names, 1, <<>>), ","), err |-> NoErr, cache |-> c.cache]

\* ColumnsQuoted(src, includePk)
ColumnsQuoted(t, type, includePk, reg, cache) ==
    ColumnsQuotedOf(Columns(t, type, includePk, reg, cache))

\* int(reflect.ValueOf(src).Elem().Field(index).Int()), an int of 64 bits
PkValue(structVal, data) == structVal[data.fields[data.pk].index + 1].n

\* PrimaryKey once getFields has returned g
PrimaryKeyOfFields(g, structVal) ==
    IF g.err # NoErr THEN [name |-> "", pk |-> 0, err |-> g.err, cache |-> g.cache]
    ELSE IF g.data.pk = "" THEN [name |-> "", pk |-> 0, err |-> NoErr, cache |-> g.cache]
    ELSE [name |-> g.data.pk, pk |-> PkValue(structVal, g.data), err |-> NoErr,
          cache |-> g.cache]

\* PrimaryKey(src)
PrimaryKey(t, type, structVal, reg, cache) ==
    PrimaryKeyOfFields(GetFieldsResult(t, type, reg, cache), structVal)

\* the bits of the integer types narrower than an int
Bits(T) == IF T = "int8" THEN 8 ELSE 16
NarrowTypes == {"int8", "int16"}

\* the conversion of x to a signed integer of that many bits
Wrap(x, bits) ==
    IF (x % (2 ^ bits)) >= 2 ^ (bits - 1) THEN (x % (2 ^ bits)) - (2 ^ bits)
    ELSE x % (2 ^ bits)

\* reflect.Value.SetInt(x) on a field of the type T: the value the field takes
SetInt(T, x) == IF T \in NarrowTypes THEN Wrap(x, Bits(T)) ELSE x

\* the struct after the assignment of pk to the field at index
WithPk(structVal, i, pk) ==
    [structVal EXCEPT ![i] = [@ EXCEPT !.n = SetInt(structVal[i].t, pk)]]

\* SetPrimaryKey once getFields has returned g
SetPrimaryKeyOfFields(g, structVal, pk) ==
    IF g.err # NoErr THEN [structVal |-> structVal, err |-> g.err, cache |-> g.cache]
    ELSE IF g.data.pk = ""
    THEN [structVal |-> structVal, cache |-> g.cache,
          err |-> Errorf("meddler.SetPrimaryKey: no primary key field found", "", "")]
    ELSE [structVal |-> WithPk(structVal, g.data.fields[g.data.pk].index + 1, pk),
          err |-> NoErr, cache |-> g.cache]

\* SetPrimaryKey(src, pk)
SetPrimaryKey(t, type, structVal, pk, reg, cache) ==
    SetPrimaryKeyOfFields(GetFieldsResult(t, type, reg, cache), structVal, pk)

\* the loop of Placeholders over data.columns
RECURSIVE PlaceholdersLoop(_, _, _, _, _)
PlaceholdersLoop(data, includePk, k, placeholders, placeholder) ==
    IF k > Len(data.columns) THEN placeholders
    ELSE IF ~includePk /\ data.columns[k] = data.pk
    THEN PlaceholdersLoop(data, includePk, k + 1, placeholders, placeholder)
    ELSE PlaceholdersLoop(data, includePk, k + 1,
             Append(placeholders, PlaceholderAt(placeholder, Len(placeholders) + 1)),
             placeholder)

\* Placeholders once getFields has returned g
PlaceholdersOfFields(g, includePk, placeholder) ==
    IF g.err # NoErr THEN [placeholders |-> <<>>, err |-> g.err, cache |-> g.cache]
    ELSE [placeholders |-> PlaceholdersLoop(g.data, includePk, 1, <<>>, placeholder),
          err |-> NoErr, cache |-> g.cache]

\* Placeholders(src, includePk), with the setting of var Placeholder
Placeholders(t, type, includePk, reg, cache, placeholder) ==
    PlaceholdersOfFields(GetFieldsResult(t, type, reg, cache), includePk, placeholder)

\* PlaceholdersString once Placeholders has returned p
PlaceholdersStringOf(p) ==
    IF p.err # NoErr THEN [s |-> "", err |-> p.err, cache |-> p.cache]
    ELSE [s |-> Join(p.placeholders, ","), err |-> NoErr, cache |-> p.cache]

\* PlaceholdersString(src, includePk)
PlaceholdersString(t, type, includePk, reg, cache, placeholder) ==
    PlaceholdersStringOf(Placeholders(t, type, includePk, reg, cache, placeholder))

----------------------------------------------------------------------------
(* Insert, Update and Save: loadsave.go.  A call is [t, type, structVal,  *)
(* reg, placeholder, postgres, reply]: the record src points to and its   *)
(* type, the registry, the settings Placeholder and PostgreSQL, and what  *)
(* the database answers to the statement of the call.  A query is kept as *)
(* the arguments of the fmt.Sprintf that forms it.                        *)

\* the table of the calls
Table == "person"

\* what the database answers: whether the statement fails, whether the new
\* id cannot be had, and the new id
Reply(execErr, idErr, id) == [execErr |-> execErr, idErr |-> idErr, id |-> id]

\* db.Exec(q, values...) and db.QueryRow(q, values...) of an INSERT
InsertStmt(via, names, placeholders, returning, args) ==
    [verb |-> "INSERT", via |-> via, table |-> Table, names |-> names,
     values |-> placeholders, returning |-> returning, pairs |-> <<>>,
     where |-> <<>>, args |-> args]

\* db.Exec(q, values...) of an UPDATE
UpdateStmt(pairs, pkName, ph, args) ==
    [verb |-> "UPDATE", via |-> "Exec", table |-> Table, names |-> "", values |-> "",
     returning |-> "", pairs |-> pairs, where |-> <<pkName, ph>>, args |-> args]

\* what Insert, Update and Save return and leave behind: op is the function
\* that returned, stmts the statements the database received
Wrote(op, structVal, err, cache, stmts, log) ==
    [op |-> op, structVal |-> structVal, err |-> err, cache |-> cache, stmts |-> stmts,
     log |-> log]

\* Insert once SetPrimaryKey has returned s
InsertOfNewKey(call, s, stmt, log) ==
    IF s.err # NoErr
    THEN Wrote("Insert", call.structVal,
               Errorf("meddler.Insert: Error saving updated pk", "", s.err.msg),
               s.cache, <<stmt>>, log)
    ELSE Wrote("Insert", s.structVal, NoErr, s.cache, <<stmt>>, log)

\* Insert once the database has answered the statement stmt
InsertAnswered(call, cache, pkName, stmt, log) ==
    IF call.postgres /\ pkName # ""
    THEN IF call.reply.execErr \/ call.reply.idErr
         THEN Wrote("Insert", call.structVal,
                    Errorf("meddler.Insert: DB error in QueryRow", "", ""),
                    cache, <<stmt>>, log)
         ELSE InsertOfNewKey(call,
                  SetPrimaryKey(call.t, call.type, call.structVal, call.reply.id,
                                call.reg, cache),
                  stmt, log)
    ELSE IF pkName # ""
    THEN IF call.reply.execErr
         THEN Wrote("Insert", call.structVal,
                    Errorf("meddler.Insert: DB error in Exec", "", ""),
                    cache, <<stmt>>, log)
         ELSE IF call.reply.idErr
         THEN Wrote("Insert", call.structVal,
                    Errorf("meddler.Insert: DB error getting new primary key value", "", ""),
                    cache, <<stmt>>, log)
         ELSE InsertOfNewKey(call,
                  SetPrimaryKey(call.t, call.type, call.structVal, call.reply.id,
                                call.reg, cache),
                  stmt, log)
    ELSE Wrote("Insert", call.structVal,
               IF call.reply.execErr
               THEN Errorf("meddler.Insert: DB error in Exec", "", "") ELSE NoErr,
               cache, <<stmt>>, log)

\* Insert once Values has returned v
InsertOfValues(call, pkName, namesPart, valuesPart, v) ==
    IF v.err # NoErr
    THEN Wrote("Insert", call.structVal, v.err, v.cache, <<>>, v.log)
    ELSE InsertAnswered(call, v.cache, pkName,
             InsertStmt(IF call.postgres /\ pkName # "" THEN "QueryRow" ELSE "Exec",
                        namesPart, valuesPart,
                        IF call.postgres /\ pkName # "" THEN pkName ELSE "", v.values),
             v.log)

\* Insert once PlaceholdersString has returned p
InsertOfPlaceholders(call, pkName, namesPart, p) ==
    IF p.err # NoErr
    THEN Wrote("Insert", call.structVal, p.err, p.cache, <<>>, <<>>)
    ELSE InsertOfValues(call, pkName, namesPart, p.s,
             Values(call.t, call.type, call.structVal, FALSE, call.reg, p.cache))

\* Insert once ColumnsQuoted has returned c
InsertOfColumns(call, pkName, c) ==
    IF c.err # NoErr
    THEN Wrote("Insert", call.structVal, c.err, c.cache, <<>>, <<>>)
    ELSE InsertOfPlaceholders(call, pkName, c.s,
             PlaceholdersString(call.t, call.type, FALSE, call.reg, c.cache,
                                call.placeholder))

\* a record is inserted whatever its pk holds
InsertOfKeyUnchecked(call, pk) ==
    IF pk.err # NoErr
    THEN Wrote("Insert", call.structVal, pk.err, pk.cache, <<>>, <<>>)
    ELSE InsertOfColumns(call, pk.name,
             ColumnsQuoted(call.t, call.type, FALSE, call.reg, pk.cache))

\* Insert once PrimaryKey has returned pk
InsertOfKey(call, pk) ==
    IF pk.err # NoErr
    THEN Wrote("Insert", call.structVal, pk.err, pk.cache, <<>>, <<>>)
    ELSE IF pk.name # "" /\ pk.pk # 0
    THEN Wrote("Insert", call.structVal,
               Errorf("meddler.Insert: primary key must be zero", "", ""),
               pk.cache, <<>>, <<>>)
    ELSE InsertOfColumns(call, pk.name,
             ColumnsQuoted(call.t, call.type, FALSE, call.reg, pk.cache))

\* Insert(db, table, src)
Insert(call, cache) ==
    InsertOfKey(call, PrimaryKey(call.t, call.type, call.structVal, call.reg, cache))

\* the column=placeholder pairs of Update
RECURSIVE PairsLoop(_, _, _, _)
PairsLoop(names, placeholders, i, pairs) ==
    IF i > Len(names) \/ i > Len(placeholders) THEN pairs
    ELSE PairsLoop(names, placeholders, i + 1, Append(pairs, <<names[i], placeholders[i]>>))

\* the pk may be any integer but 0
PkTooSmallZeroOnly(pk) == pk = 0

\* the check Update makes of the value of the pk
PkTooSmall(pk) == pk < 1

\* Update once PrimaryKey has returned pk
UpdateOfKey(call, names, placeholders, values, log, pk) ==
    IF pk.err # NoErr
    THEN Wrote("Update", call.structVal, pk.err, pk.cache, <<>>, log)
    ELSE IF pk.name = ""
    THEN Wrote("Update", call.structVal,
               Errorf("meddler.Update: no primary key field", "", ""), pk.cache, <<>>, log)
    ELSE IF PkTooSmall(pk.pk)
    THEN Wrote("Update", call.structVal,
               Errorf("meddler.Update: primary key must be an integer > 0", "", ""),
               pk.cache, <<>>, log)
    ELSE Wrote("Update", call.structVal,
               IF call.reply.execErr
               THEN Errorf("meddler.Update: DB error in Exec", "", "") ELSE NoErr,
               pk.cache,
               <<UpdateStmt(PairsLoop(names, placeholders, 1, <<>>), pk.name,
                            PlaceholderAt(call.placeholder, Len(placeholders) + 1),
                            Append(values, Val("int", pk.pk)))>>,
               log)

\* Update once Values has returned v
UpdateOfValues(call, names, placeholders, v) ==
    IF v.err # NoErr
    THEN Wrote("Update", call.structVal, v.err, v.cache, <<>>, v.log)
    ELSE UpdateOfKey(call, names, placeholders, v.values, v.log,
             PrimaryKey(call.t, call.type, call.structVal, call.reg, v.cache))

\* Update once Placeholders has returned p
UpdateOfPlaceholders(call, names, p) ==
    IF p.err # NoErr
    THEN Wrote("Update", call.structVal, p.err, p.cache, <<>>, <<>>)
    ELSE UpdateOfValues(call, names, p.placeholders,
             Values(call.t, call.type, call.structVal, FALSE, call.reg, p.cache))

\* Update once Columns has returned c
UpdateOfColumns(call, c) ==
    IF c.err # NoErr
    THEN Wrote("Update", call.structVal, c.err, c.cache, <<>>, <<>>)
    ELSE UpdateOfPlaceholders(call, c.names,
             Placeholders(call.t, call.type, FALSE, call.reg, c.cache, call.placeholder))

\* Update(db, table, src)
Update(call, cache) ==
    UpdateOfColumns(call, Columns(call.t, call.type, FALSE, call.reg, cache))

\* Update is picked whenever the record has a pk field
PicksUpdateAnyPk(pk) == pk.name # ""

\* the choice of Save
PicksUpdate(pk) == pk.name # "" /\ pk.pk # 0

\* Save once PrimaryKey has returned pk
SaveOfKey(call, pk) ==
    IF pk.err # NoErr
    THEN Wrote("Save", call.structVal, pk.err, pk.cache, <<>>, <<>>)
    ELSE IF PicksUpdate(pk) THEN Update(call, pk.cache)
    ELSE Insert(call, pk.cache)

\* Save(db, table, src)
Save(call, cache) ==
    SaveOfKey(call, PrimaryKey(call.t, call.type, call.structVal, call.reg, cache))

----------------------------------------------------------------------------
(* The records saved *)

\* a struct whose pk stands between two hooked fields, one without pk, and
\* the settings of Placeholder and PostgreSQL a program makes
Account ==
    PtrTo(<< Fld("Note", "", "int",   <<"note", "custom">>),
             Fld("ID",   "", "int64", <<"id", "pk">>),
             Fld("Age",  "", "int",   <<"age", "zeroisnull">>) >>)
Memo ==
    PtrTo(<< Fld("Note", "", "int", <<"note", "custom">>),
             Fld("Age",  "", "int", <<"age">>) >>)
SaveTypes == {Account, Memo, Twice}
PlaceholderSettings == {<<"?">>, <<"$", "1">>}

\* the records of a type: a note the handler h1 takes or refuses, a pk that
\* is negative, zero or positive, an age that is zero or not
Records(type) ==
    IF type = Account
    THEN {<<Val("int", note), Val("int64", id), Val("int", age)>> :
              note \in {1, 2}, id \in {-1, 0, 1}, age \in {0, 3}}
    ELSE IF type = Memo
    THEN {<<Val("int", note), Val("int", age)>> : note \in {1, 2}, age \in {0, 3}}
    ELSE {Filled(type, 0), Filled(type, 1)}

\* the ids a database generates are positive
NewIds == {7, 8}
Replies ==
    {Reply(TRUE, FALSE, 0), Reply(FALSE, TRUE, 0)} \cup {Reply(FALSE, FALSE, id) : id \in NewIds}

\* the numbers of calls made before a call on a record
SaveCounts == {0, 1}

\* before any call on the record d
NoSave(d) ==
    [op |-> "init", did |-> "", err |-> NoErr, log |-> <<>>, stmts |-> <<>>, calls |-> 0,
     before |-> d.v, reply |-> Reply(FALSE, FALSE, 0), prev |-> <<>>]

\* what the call op leaves in out, when it returned w
Saved(op, w, reply) ==
    [op |-> op, did |-> w.op, err |-> w.err, log |-> w.log, stmts |-> w.stmts,
     calls |-> out.calls + 1, before |-> dst.v, reply |-> reply,
     prev |-> [out EXCEPT !.prev = <<>>]]

InitSave ==
    /\ decl \in {[t \in TypeIds |-> IF t = "Person" THEN Person ELSE ty] : ty \in SaveTypes}
    /\ registry = ScanRegistry
    /\ fieldsCache = EmptyMap
    /\ ret = NoCall
    /\ gor = [g \in Callers |-> Idle]
    /\ crashed = FALSE
    /\ rows = <<>>
    /\ dst \in {Dest("T", decl["T"], v) : v \in Records(decl["T"])}
    /\ out = NoSave(dst)
    /\ hook = <<>>
    /\ db \in {[placeholder |-> p, postgres |-> pg, stmts |-> <<>>] :
                  p \in PlaceholderSettings, pg \in BOOLEAN}
    /\ stmtCache = <<>>

\* the call of Insert, Update or Save on dst, answered with reply
CallOn(reply) ==
    [t |-> dst.t, type |-> dst.type, structVal |-> dst.v, reg |-> registry,
     placeholder |-> db.placeholder, postgres |-> db.postgres, reply |-> reply]

\* what a call that returned w leaves behind
AfterSave(op, w, reply) ==
    /\ dst' = [dst EXCEPT !.v = w.structVal]
    /\ fieldsCache' = w.cache
    /\ db' = [db EXCEPT !.stmts = @ \o w.stmts]
    /\ out' = Saved(op, w, reply)
    /\ UNCHANGED <<decl, registry, ret, gor, crashed, rows, hook, stmtCache>>

\* err := Insert(db, "person", dst)
CallInsert(reply) ==
    /\ out.calls \in SaveCounts
    /\ AfterSave("Insert", Insert(CallOn(reply), fieldsCache), reply)

\* err := Update(db, "person", dst)
CallUpdate(reply) ==
    /\ out.calls \in SaveCounts
    /\ AfterSave("Update", Update(CallOn(reply), fieldsCache), reply)

\* err := Save(db, "person", dst)
CallSave(reply) ==
    /\ out.calls \in SaveCounts
    /\ AfterSave("Save", Save(CallOn(reply), fieldsCache), reply)

NextSave ==
    \/ \E reply \in Replies : CallInsert(reply)
    \/ \E reply \in Replies : CallUpdate(reply)
    \/ \E reply \in Replies : CallSave(reply)

SpecSave == InitSave /\ [][NextSave]_vars

----------------------------------------------------------------------------
(* Claims about Insert, Update and Save *)

\* the place of the field marked pk in a struct type, 0 when it has none
FlaggedPk(type) ==
    LET S == {i \in 1..Len(type.Fields) : Mapped(type.Fields[i]) /\ MarkedPk(type.Fields[i])}
    IN  IF S = {} THEN 0 ELSE CHOOSE i \in S : TRUE

\* the places of the mapped fields of a struct type but that of the pk, in
\* declaration order
RECURSIVE PlacesFrom(_, _, _)
PlacesFrom(type, i, includePk) ==
    IF i > Len(type.Fields) THEN <<>>
    ELSE (IF Mapped(type.Fields[i]) /\ (includePk \/ i # FlaggedPk(type)) THEN <<i>> ELSE <<>>)
         \o PlacesFrom(type, i + 1, includePk)
Places(type, includePk) == PlacesFrom(type, 1, includePk)

\* the texts of a list, one after the other, with sep between them
RECURSIVE Text(_, _)
Text(list, sep) ==
    IF list = <<>> THEN ""
    ELSE IF Len(list) = 1 THEN list[1]
    ELSE list[1] \o sep \o Text(Tail(list), sep)

\* the placeholder of position i under a setting of Placeholder: the setting
\* with its first 1 replaced by i, the setting itself when it has no 1
Numbered(setting, i) ==
    LET ones == {j \in 1..Len(setting) : setting[j] = "1"}
    IN  IF ones = {} THEN Text(setting, "")
        ELSE Text(SubSeq(setting, 1, Least(ones) - 1), "") \o ToString(i)
             \o Text(SubSeq(setting, Least(ones) + 1, Len(setting)), "")

\* what the write hook of the handler m makes of the value v of a field that
\* is no time, when it does not fail
Sent(m, v) == IF m = "ZeroIsNullMeddler" /\ v.n = 0 THEN Null ELSE v

\* the write-hook values of the fields at the places of a record
SentOf(type, reg, v, places) ==
    [k \in 1..Len(places) |->
        Sent(ExpectedHandler(type.Fields[places[k]], reg), v[places[k]])]

\* a write hook of a mapped field but the pk fails for the record v
SomeWriteFails(type, reg, v) ==
    \E k \in 1..Len(Places(type, FALSE)) :
        LET i == Places(type, FALSE)[k]
        IN  WriteFails(ExpectedHandler(type.Fields[i], reg), v[i])

\* the quoted column names of an INSERT of the struct type
QuotedNames(type) ==
    LET places == Places(type, FALSE)
    IN  Text([k \in 1..Len(places) |-> "\"" \o NameOf(type.Fields[places[k]]) \o "\""], ",")

\* the statements are one INSERT of the record v that leaves out the pk
OneInsert(stmts, type, reg, v) ==
    /\ Len(stmts) = 1
    /\ stmts[1].verb = "INSERT"
    /\ stmts[1].names = QuotedNames(type)
    /\ stmts[1].args = SentOf(type, reg, v, Places(type, FALSE))

\* the statements are one UPDATE of the row of the pk of the record v: its
\* values are the write-hook values of the other columns in their order and
\* then the pk, its WHERE placeholder has the number after theirs
OneUpdate(stmts, type, reg, v, setting) ==
    LET places == Places(type, FALSE)
        k      == FlaggedPk(type)
    IN  /\ Len(stmts) = 1
        /\ stmts[1].verb = "UPDATE"
        /\ stmts[1].args = Append(SentOf(type, reg, v, places), Val("int", v[k].n))
        /\ stmts[1].where = <<NameOf(type.Fields[k]), Numbered(setting, Len(places) + 1)>>
        /\ stmts[1].pairs =
              [j \in 1..Len(places) |->
                  <<NameOf(type.Fields[places[j]]), Numbered(setting, j)>>]

\* the last call was the function op on a record of a type that can be
\* mapped
SaveCall(op) == out.op = op /\ WellFormed(dst.type, registry)

\* the call before the last was a Save of the record with a zero pk that
\* succeeded, and the record has not been touched since
FreshlySaved ==
    /\ FlaggedPk(dst.type) # 0
    /\ out.prev.op = "Save" /\ out.prev.err = NoErr
    /\ out.prev.before[FlaggedPk(dst.type)].n = 0

\* C23: Save of a record of a mapped type goes to Update exactly when the
\* record has a pk field that holds a value other than zero, and to Insert
\* otherwise; a Save of a record with a zero pk that succeeds has sent one
\* INSERT and left the generated id in the pk, and the next Save of that
\* record sends one UPDATE of the row of that id and leaves the pk as it is
C23_SavePicksInsertOrUpdate ==
    SaveCall("Save") =>
        LET k      == FlaggedPk(dst.type)
            update == k # 0 /\ out.before[k].n # 0
        IN  /\ out.did = (IF update THEN "Update" ELSE "Insert")
            /\ \A j \in 1..Len(out.stmts) :
                  out.stmts[j].verb = (IF update THEN "UPDATE" ELSE "INSERT")
            /\ (k # 0 /\ out.before[k].n = 0 /\ out.err = NoErr) =>
                  /\ OneInsert(out.stmts, dst.type, registry, out.before)
                  /\ dst.v[k].n = out.reply.id
            /\ FreshlySaved =>
                  /\ OneUpdate(out.stmts, dst.type, registry, out.before, db.placeholder)
                  /\ out.before[k].n = out.prev.reply.id
                  /\ dst.v[k] = out.before[k]

\* a record with a zero pk was saved twice: the first Save inserted it and
\* took the id 7, the second updated the row 7
C23_Witness ==
    /\ SaveCall("Save") /\ FreshlySaved /\ out.err = NoErr
    /\ out.prev.stmts # <<>> /\ out.prev.stmts[1].verb = "INSERT"
    /\ out.stmts # <<>> /\ out.stmts[1].verb = "UPDATE"
    /\ dst.v[FlaggedPk(dst.type)].n = 7

\* a record without a pk field was saved: Save inserted it
C23_NoPkWitness ==
    /\ SaveCall("Save") /\ FlaggedPk(dst.type) = 0 /\ out.err = NoErr
    /\ out.stmts # <<>> /\ out.stmts[1].verb = "INSERT"

\* C24: Insert of a record whose pk is not zero returns an error and sends
\* nothing; Insert sends at most one statement, and exactly one INSERT that
\* leaves out the pk column when the pk is zero and no write hook fails;
\* when Insert succeeds the record differs from what it was in the pk alone,
\* which holds the generated id; when Insert returns an error, whichever,
\* the record is what it was
C24_InsertNeedsZeroPk ==
    SaveCall("Insert") =>
        LET k == FlaggedPk(dst.type)
        IN  /\ (k # 0 /\ out.before[k].n # 0) => (out.err # NoErr /\ out.stmts = <<>>)
            /\ Len(out.stmts) <= 1
            /\ ((k = 0 \/ out.before[k].n = 0)
                  /\ ~SomeWriteFails(dst.type, registry, out.before))
                  => OneInsert(out.stmts, dst.type, registry, out.before)
            /\ out.err = NoErr =>
                  /\ OneInsert(out.stmts, dst.type, registry, out.before)
                  /\ dst.v = IF k = 0 THEN out.before
                             ELSE [out.before EXCEPT ![k].n = out.reply.id]
            /\ out.err # NoErr => dst.v = out.before

\* a record with a zero pk between two other fields was inserted and took
\* the id 8
C24_Witness ==
    /\ SaveCall("Insert") /\ out.err = NoErr
    /\ FlaggedPk(dst.type) = 2 /\ out.before[2].n = 0 /\ dst.v[2].n = 8
    /\ Len(out.stmts) = 1 /\ Len(out.stmts[1].args) = 2

\* Insert returned an error for each cause: a pk that is not zero, a write
\* hook that failed, a statement that failed, an id that could not be had
C24_NonZeroWitness ==
    /\ SaveCall("Insert") /\ FlaggedPk(dst.type) # 0
    /\ out.before[FlaggedPk(dst.type)].n # 0 /\ out.err # NoErr
C24_PreWriteWitness ==
    /\ SaveCall("Insert") /\ out.err.msg = "meddler.SomeValues: PreWrite error on column"
    /\ out.stmts = <<>>
C24_StatementWitness ==
    /\ SaveCall("Insert") /\ out.reply.execErr /\ out.err # NoErr /\ Len(out.stmts) = 1
C24_IdWitness ==
    /\ SaveCall("Insert") /\ out.reply.idErr /\ out.err # NoErr /\ Len(out.stmts) = 1
    /\ FlaggedPk(dst.type) # 0

\* the record of the last call has no pk field, or a pk less than 1
NoRowToUpdate ==
    FlaggedPk(dst.type) = 0 \/ out.before[FlaggedPk(dst.type)].n < 1

\* C25 as stated: Update of a record without a pk field or with a pk less
\* than 1 returns an error and sends nothing, Update of every other record
\* sends exactly one UPDATE, and Update leaves the record as it was
C25_UpdateOrError ==
    out.op = "Update" =>
        /\ dst.v = out.before
        /\ IF NoRowToUpdate THEN out.err # NoErr /\ out.stmts = <<>>
           ELSE OneUpdate(out.stmts, dst.type, registry, out.before, db.placeholder)

\* C25: Update of a record without a pk field or with a pk less than 1, or
\* for which a write hook fails, returns an error and sends nothing; Update
\* of every other record sends exactly one UPDATE whose values are the
\* write-hook values of the columns but the pk in their order and then the
\* pk, with the WHERE placeholder numbered after theirs; Update leaves the
\* record as it was
C25_UpdateNeedsPositivePk ==
    out.op = "Update" =>
        /\ dst.v = out.before
        /\ IF NoRowToUpdate \/ SomeWriteFails(dst.type, registry, out.before)
           THEN out.err # NoErr /\ out.stmts = <<>>
           ELSE OneUpdate(out.stmts, dst.type, registry, out.before, db.placeholder)

\* a record with the pk 1 between two other fields was updated under
\* numbered placeholders: the WHERE placeholder is the third
C25_Witness ==
    /\ out.op = "Update" /\ out.err = NoErr /\ FlaggedPk(dst.type) = 2
    /\ Len(out.stmts) = 1 /\ out.stmts[1].where = <<"id", "$3">>
    /\ out.stmts[1].args[3] = Val("int", 1)

\* Update returned an error for a record without pk field, and for one with
\* a negative pk
C25_NoPkWitness ==
    /\ SaveCall("Update") /\ FlaggedPk(dst.type) = 0 /\ out.err # NoErr
C25_NegativeWitness ==
    /\ SaveCall("Update") /\ FlaggedPk(dst.type) # 0
    /\ out.before[FlaggedPk(dst.type)].n < 0 /\ out.err # NoErr

----------------------------------------------------------------------------
(* The lower-level functions a program builds its own statements with *)

\* the settings of Placeholder: the default, that of PostgreSQL, and one
\* with two digits 1
WriteSettings == {<<"?">>, <<"$", "1">>, <<":", "1", "v", "1">>}

\* the column lists a program hands over: with a name no field has, with a
\* name twice and out of the order of the fields, of one name
ColumnLists == {<<"bogus">>, <<"age", "bogus", "id", "age">>, <<"note">>}

\* the records the functions are applied to
WriteRecords(type) ==
    IF type = Account
    THEN {<<Val("int", 1), Val("int64", 1), Val("int", 0)>>,
          <<Val("int", 2), Val("int64", 0), Val("int", 3)>>}
    ELSE IF type = Memo THEN {<<Val("int", 1), Val("int", 0)>>}
    ELSE IF type = Item THEN {Filled(Item, 5), ZeroStruct(Item)}
    ELSE {Filled(type, 1)}
WriteTypes == {Account, Memo, Item, Twice}

\* the numbers of calls made before a call
WriteCounts == {0, 1, 2}

\* a result a program holds: of which argument, and what was returned
Held(arg, val) == [called |-> TRUE, arg |-> arg, val |-> val]
NotHeld == [called |-> FALSE, arg |-> <<>>, val |-> <<>>]

\* before any call on the record d
NoWrite(d) ==
    [op |-> "init", arg |-> <<>>, err |-> NoErr, log |-> <<>>, calls |-> 0, before |-> d.v,
     names |-> NotHeld, placeholders |-> NotHeld, values |-> NotHeld, some |-> NotHeld,
     targets |-> NotHeld]

\* what the call op(arg) that returned err leaves in out
Applied(op, arg, err, log) ==
    [out EXCEPT !.op = op, !.arg = arg, !.err = err, !.log = log, !.calls = @ + 1,
                !.before = dst.v]

InitWrite ==
    /\ decl \in {[t \in TypeIds |-> IF t = "Person" THEN Person ELSE ty] : ty \in WriteTypes}
    /\ registry = ScanRegistry
    /\ fieldsCache = EmptyMap
    /\ ret = NoCall
    /\ gor = [g \in Callers |-> Idle]
    /\ crashed = FALSE
    /\ rows = <<>>
    /\ dst \in {Dest("T", decl["T"], v) : v \in WriteRecords(decl["T"])}
    /\ out = NoWrite(dst)
    /\ hook = <<>>
    /\ db \in {[placeholder |-> p, postgres |-> FALSE, stmts |-> <<>>] : p \in WriteSettings}
    /\ stmtCache = <<>>

\* what a call that reads the record leaves alone
WriteFrame == UNCHANGED <<decl, registry, ret, gor, crashed, rows, dst, hook, db, stmtCache>>

\* out once Columns has returned c
ColumnsApplied(includePk, c) ==
    [Applied("Columns", includePk, c.err, <<>>) EXCEPT
        !.names = IF c.err = NoErr THEN Held(includePk, c.names) ELSE NotHeld]

\* names, err := Columns(dst, includePk)
CallColumnsOf(includePk) ==
    /\ out.calls \in WriteCounts
    /\ out' = ColumnsApplied(includePk,
                  Columns(dst.t, dst.type, includePk, registry, fieldsCache))
    /\ fieldsCache' = Columns(dst.t, dst.type, includePk, registry, fieldsCache).cache
    /\ WriteFrame

\* out once Placeholders has returned p
PlaceholdersApplied(includePk, p) ==
    [Applied("Placeholders", includePk, p.err, <<>>) EXCEPT
        !.placeholders = IF p.err = NoErr THEN Held(includePk, p.placeholders) ELSE NotHeld]

\* placeholders, err := Placeholders(dst, includePk)
CallPlaceholders(includePk) ==
    /\ out.calls \in WriteCounts
    /\ out' = PlaceholdersApplied(includePk,
                  Placeholders(dst.t, dst.type, includePk, registry, fieldsCache,
                               db.placeholder))
    /\ fieldsCache' = GetFieldsResult(dst.t, dst.type, registry, fieldsCache).cache
    /\ WriteFrame

\* out once Values has returned v
ValuesApplied(includePk, v) ==
    [Applied("Values", includePk, v.err, v.log) EXCEPT
        !.values = IF v.err = NoErr THEN Held(includePk, v.values) ELSE NotHeld]

\* values, err := Values(dst, includePk)
CallValuesOf(includePk) ==
    /\ out.calls \in WriteCounts
    /\ out' = ValuesApplied(includePk,
                  Values(dst.t, dst.type, dst.v, includePk, registry, fieldsCache))
    /\ fieldsCache' = GetFieldsResult(dst.t, dst.type, registry, fieldsCache).cache
    /\ WriteFrame

\* out once SomeValues has returned v
SomeValuesApplied(columns, v) ==
    [Applied("SomeValues", columns, v.err, v.log) EXCEPT
        !.some = IF v.err = NoErr THEN Held(columns, v.values) ELSE NotHeld]

\* values, err := SomeValues(dst, columns)
CallSomeValues(columns) ==
    /\ out.calls \in WriteCounts
    /\ out' = SomeValuesApplied(columns,
                  SomeValues(dst.t, dst.type, dst.v, columns, registry, fieldsCache))
    /\ fieldsCache' = GetFieldsResult(dst.t, dst.type, registry, fieldsCache).cache
    /\ WriteFrame

\* out once Targets has returned s
TargetsApplied(columns, s) ==
    [Applied("Targets", columns, s.err, s.log) EXCEPT
        !.targets = IF s.err = NoErr THEN Held(columns, s.targets) ELSE NotHeld]

\* targets, err := Targets(dst, columns)
CallTargets(columns) ==
    /\ out.calls \in WriteCounts
    /\ out' = TargetsApplied(columns,
                  Targets(dst.t, dst.type, dst.v, columns, registry, fieldsCache))
    /\ fieldsCache' = GetFieldsResult(dst.t, dst.type, registry, fieldsCache).cache
    /\ WriteFrame

\* WriteTargets has returned w
WriteTargetsApplied(columns, w) ==
    /\ out' = Applied("WriteTargets", columns, w.err, w.log)
    /\ dst' = [dst EXCEPT !.v = w.structVal]
    /\ fieldsCache' = w.cache

\* err := WriteTargets(dst, columns, targets), with the targets of a call of
\* Targets for these columns or for a list of another length
CallWriteTargets(columns) ==
    /\ out.calls \in WriteCounts
    /\ out.targets.called
    /\ columns = out.targets.arg \/ Len(columns) # Len(out.targets.arg)
    /\ WriteTargetsApplied(columns,
           WriteTargets(dst.t, dst.type, dst.v, columns, out.targets.val, registry,
                        fieldsCache))
    /\ UNCHANGED <<decl, registry, ret, gor, crashed, rows, hook, db, stmtCache>>

NextWrite ==
    \/ \E includePk \in BOOLEAN : CallColumnsOf(includePk)
    \/ \E includePk \in BOOLEAN : CallPlaceholders(includePk)
    \/ \E includePk \in BOOLEAN : CallValuesOf(includePk)
    \/ \E columns \in ColumnLists : CallSomeValues(columns)
    \/ \E columns \in ColumnLists : CallTargets(columns)
    \/ \E columns \in ColumnLists : CallWriteTargets(columns)

SpecWrite == InitWrite /\ [][NextWrite]_vars

----------------------------------------------------------------------------
(* Claims about the lower-level functions *)

\* what the write hook of the handler m makes of the value v of a field,
\* when it does not fail: a time handler the time in UTC, NULL of a nil
\* reference and, if it takes zero for NULL, of the zero time; zeroisnull
\* NULL of a zero; every other handler the value
WriteHookResult(m, v) ==
    IF IsTimeHandler(m)
    THEN IF v.nil \/ (m \in ZHandlers /\ v.n = 0) THEN Null ELSE UTCTime(v.n)
    ELSE Sent(m, v)

\* the columns of a struct type, with or without that of the pk
NamesOf(type, includePk) ==
    [k \in 1..Len(Places(type, includePk)) |->
        NameOf(type.Fields[Places(type, includePk)[k]])]

\* the values of the columns of a list for the record v: the write-hook
\* result of the field a column names, NULL for a column that names none
ValuesFor(type, reg, v, columns) ==
    [k \in 1..Len(columns) |->
        IF FieldFor(type, columns[k]) = 0 THEN Null
        ELSE WriteHookResult(ExpectedHandler(type.Fields[FieldFor(type, columns[k])], reg),
                             v[FieldFor(type, columns[k])])]

\* the write hook of a field one of the columns names fails for the record v
WriteFailsFor(type, reg, v, columns) ==
    \E k \in 1..Len(columns) :
        /\ FieldFor(type, columns[k]) # 0
        /\ WriteFails(ExpectedHandler(type.Fields[FieldFor(type, columns[k])], reg),
                      v[FieldFor(type, columns[k])])

\* the record is of a type that can be mapped
WriteMapped == WellFormed(dst.type, registry)

\* C26: for a mapped type and either includePk, Columns returns the names of
\* the mapped fields in declaration order, without that of the pk alone when
\* includePk is false; Placeholders returns one placeholder for each of
\* them, the i-th being the setting with its first 1 replaced by i, or the
\* setting itself when it has no 1; Values returns for each of them the
\* write-hook result of its field; so the three lists of one includePk have
\* one length and agree place by place
C26_ColumnsPlaceholdersValuesAligned ==
    WriteMapped =>
        /\ out.names.called => out.names.val = NamesOf(dst.type, out.names.arg)
        /\ out.placeholders.called =>
              out.placeholders.val =
                  [i \in 1..Len(Places(dst.type, out.placeholders.arg)) |->
                      Numbered(db.placeholder, i)]
        /\ (out.op = "Values" /\ out.err = NoErr) =>
              out.values.val =
                  ValuesFor(dst.type, registry, out.before, NamesOf(dst.type, out.arg))
        /\ (out.names.called /\ out.placeholders.called /\ out.values.called
              /\ out.names.arg = out.placeholders.arg /\ out.names.arg = out.values.arg)
              => /\ Len(out.names.val) = Len(out.placeholders.val)
                 /\ Len(out.names.val) = Len(out.values.val)

\* the three lists without the pk of a record whose pk stands between two
\* fields were returned under a setting with two digits 1, the last of them
\* the values, of which the second is the NULL of a zero age
C26_Witness ==
    /\ WriteMapped /\ out.op = "Values" /\ out.err = NoErr /\ out.arg = FALSE
    /\ out.names.called /\ out.names.arg = FALSE /\ out.names.val = <<"note", "age">>
    /\ out.placeholders.called /\ out.placeholders.arg = FALSE
    /\ out.placeholders.val = <<":1v1", ":2v1">>
    /\ out.values.val = <<Val("int", 1), Null>>

\* placeholders were returned under the setting without a digit 1
C26_PlainWitness ==
    /\ WriteMapped /\ out.placeholders.called /\ out.placeholders.arg
    /\ out.placeholders.val = <<"?", "?", "?">>

\* C30: SomeValues, when it succeeds, returns one value for each column of
\* the list in the order of the list, the write-hook result of the field the
\* column names and NULL for a column that names none; Values returns what
\* SomeValues returns for the columns of Columns, and fails when a write hook
\* of one of them fails; WriteTargets with targets that are not as many as
\* the columns returns an error, has invoked no hook and leaves the record
\* as it was
C30_SomeValuesFollowsTheColumns ==
    WriteMapped =>
        /\ (out.op = "SomeValues" /\ out.err = NoErr) =>
              /\ Len(out.some.val) = Len(out.arg)
              /\ out.some.val = ValuesFor(dst.type, registry, out.before, out.arg)
        /\ out.op = "SomeValues" =>
              (out.err = NoErr <=> ~WriteFailsFor(dst.type, registry, out.before, out.arg))
        /\ out.op = "Values" =>
              /\ out.err = NoErr
                    <=> ~WriteFailsFor(dst.type, registry, out.before,
                                       NamesOf(dst.type, out.arg))
              /\ out.err = NoErr =>
                    out.values.val = ValuesFor(dst.type, registry, out.before,
                                               NamesOf(dst.type, out.arg))
        /\ (out.op = "WriteTargets" /\ Len(out.arg) # Len(out.targets.val)) =>
              /\ out.err # NoErr
              /\ out.log = <<>>
              /\ dst.v = out.before

\* SomeValues returned four values for a list that names a field twice, a
\* column without field and the pk: the NULL of the zero age at both ends,
\* NULL for the column without field, and the pk
C30_Witness ==
    /\ WriteMapped /\ out.op = "SomeValues" /\ out.err = NoErr
    /\ out.arg = <<"age", "bogus", "id", "age">>
    /\ out.some.val = <<Null, Null, Val("int64", 1), Null>>

\* WriteTargets was handed the targets of a longer column list and returned
\* the error of the mismatch
C30_MismatchWitness ==
    /\ WriteMapped /\ out.op = "WriteTargets" /\ Len(out.arg) < Len(out.targets.val)
    /\ out.err.msg = "meddler.WriteTargets: mismatch in number of columns and targets"

----------------------------------------------------------------------------
(* PrimaryKey and SetPrimaryKey on pk fields of every width *)

\* structs whose pk is an int8 after another field, and an int16 before one
Tiny ==
    PtrTo(<< Fld("Age", "", "int",  <<"age">>),
             Fld("ID",  "", "int8", <<"id", "pk">>) >>)
Short ==
    PtrTo(<< Fld("ID",  "", "int16", <<"id", "pk">>),
             Fld("Age", "", "int",   <<"age">>) >>)
KeyTypes == {Tiny, Short, Account, Memo, Twice}

\* the values handed to SetPrimaryKey: within an int8, and at and beyond
\* the ends of an int8 and of an int16
KeyValues == {-32769, -32768, -129, -128, -1, 0, 1, 127, 128, 300, 32767, 32768}

\* the numbers of calls made before a call
KeyCounts == {0, 1, 2}

\* before any call on the record d
NoKey(d) ==
    [op |-> "init", arg |-> 0, err |-> NoErr, name |-> "", pk |-> 0, calls |-> 0,
     before |-> d.v, prev |-> <<>>]

\* what the call op(arg) leaves in out
Keyed(op, arg, err, name, pk) ==
    [op |-> op, arg |-> arg, err |-> err, name |-> name, pk |-> pk,
     calls |-> out.calls + 1, before |-> dst.v, prev |-> [out EXCEPT !.prev = <<>>]]

InitKey ==
    /\ decl \in {[t \in TypeIds |-> IF t = "Person" THEN Person ELSE ty] : ty \in KeyTypes}
    /\ registry = ScanRegistry
    /\ fieldsCache = EmptyMap
    /\ ret = NoCall
    /\ gor = [g \in Callers |-> Idle]
    /\ crashed = FALSE
    /\ rows = <<>>
    /\ dst \in {Dest("T", decl["T"], v) : v \in {Filled(decl["T"], 0), Filled(decl["T"], 5)}}
    /\ out = NoKey(dst)
    /\ hook = <<>>
    /\ db = <<>>
    /\ stmtCache = <<>>

\* PrimaryKey has returned k
PrimaryKeyReturned(k) ==
    /\ out' = Keyed("PrimaryKey", 0, k.err, k.name, k.pk)
    /\ fieldsCache' = k.cache

\* name, pk, err := PrimaryKey(dst)
CallPrimaryKey ==
    /\ out.calls \in KeyCounts
    /\ PrimaryKeyReturned(PrimaryKey(dst.t, dst.type, dst.v, registry, fieldsCache))
    /\ UNCHANGED <<decl, registry, ret, gor, crashed, rows, dst, hook, db, stmtCache>>

\* SetPrimaryKey has returned s
SetPrimaryKeyReturned(pk, s) ==
    /\ out' = Keyed("SetPrimaryKey", pk, s.err, "", 0)
    /\ dst' = [dst EXCEPT !.v = s.structVal]
    /\ fieldsCache' = s.cache

\* err := SetPrimaryKey(dst, pk)
CallSetPrimaryKey(pk) ==
    /\ out.calls \in KeyCounts
    /\ SetPrimaryKeyReturned(pk,
           SetPrimaryKey(dst.t, dst.type, dst.v, pk, registry, fieldsCache))
    /\ UNCHANGED <<decl, registry, ret, gor, crashed, rows, hook, db, stmtCache>>

NextKey ==
    \/ CallPrimaryKey
    \/ \E pk \in KeyValues : CallSetPrimaryKey(pk)

SpecKey == InitKey /\ [][NextKey]_vars

\* the last call was PrimaryKey, right after a SetPrimaryKey that returned
\* no error
KeyReadAfterSet ==
    out.op = "PrimaryKey" /\ out.prev.op = "SetPrimaryKey" /\ out.prev.err = NoErr

\* the fields of the record but the one at place k are what they were
OthersKept(k) == \A i \in 1..Len(dst.v) : i # k => dst.v[i] = out.before[i]

\* without a pk field PrimaryKey returns no name, 0 and no error, and
\* SetPrimaryKey returns an error and leaves the record as it was
NoPkFieldHandled ==
    (WellFormed(dst.type, registry) /\ FlaggedPk(dst.type) = 0) =>
        /\ out.op = "PrimaryKey" => (out.name = "" /\ out.pk = 0 /\ out.err = NoErr)
        /\ out.op = "SetPrimaryKey" => (out.err # NoErr /\ dst.v = out.before)

\* C27: for a type with a pk field of whatever signed width and every value
\* v, PrimaryKey called after a SetPrimaryKey(v) that returned no error
\* returns the column of the pk and v, and SetPrimaryKey changed no other
\* field; without a pk field PrimaryKey returns no name, 0 and no error, and
\* SetPrimaryKey returns an error and leaves the record as it was
C27_SetThenGetPrimaryKey ==
    /\ KeyReadAfterSet =>
          /\ out.name = NameOf(dst.type.Fields[FlaggedPk(dst.type)])
          /\ out.pk = out.prev.arg
    /\ (out.op = "SetPrimaryKey" /\ out.err = NoErr) => OthersKept(FlaggedPk(dst.type))
    /\ NoPkFieldHandled

\* the value fits the type of the pk field
FitsWidth(T, v) == T \notin NarrowTypes \/ (v >= -(2 ^ (Bits(T) - 1)) /\ v < 2 ^ (Bits(T) - 1))

\* what does hold: a value that fits the pk field is returned by PrimaryKey
\* after SetPrimaryKey, no other field changes, and the case without pk
\* field is as the claim says
PrimaryKeyKeptWithinWidth ==
    /\ (KeyReadAfterSet
          /\ FitsWidth(dst.type.Fields[FlaggedPk(dst.type)].Type, out.prev.arg)) =>
          /\ out.name = NameOf(dst.type.Fields[FlaggedPk(dst.type)])
          /\ out.pk = out.prev.arg
    /\ (out.op = "SetPrimaryKey" /\ out.err = NoErr) => OthersKept(FlaggedPk(dst.type))
    /\ NoPkFieldHandled

\* SetPrimaryKey(300) returned no error on a record with an int8 pk, and
\* PrimaryKey returns 44
C27_TruncatedWitness ==
    /\ KeyReadAfterSet /\ out.prev.arg = 300 /\ out.pk = 44
    /\ dst.type.Fields[FlaggedPk(dst.type)].Type = "int8"

\* SetPrimaryKey(300) on a record with an int64 pk, and PrimaryKey returns
\* 300
C27_WideWitness ==
    /\ KeyReadAfterSet /\ out.prev.arg = 300 /\ out.pk = 300
    /\ dst.type.Fields[FlaggedPk(dst.type)].Type = "int64"

----------------------------------------------------------------------------
(* The order of the steps of a row materialization *)

\* the columns of a result set that name a field of the struct type, in the
\* order of the result set
MappedNames(type, columns) == SelectSeq(columns, LAMBDA c : FieldFor(type, c) # 0)

\* the invocations of the hook h for the first n of the names
Invocations(h, names, n) == [k \in 1..n |-> Ev(h, names[k])]

\* the steps of a row materialization that invoked the pre-scan hook for
\* the first p mapped columns and, if it scanned, the post-scan hook for the
\* first q
Steps(names, p, scanned, q) ==
    <<Ev("Next", "")>> \o Invocations("PreRead", names, p)
        \o (IF scanned THEN <<Ev("Scan", "")>> \o Invocations("PostRead", names, q)
            ELSE <<>>)

\* C28: a call that reads one pending row into a struct has advanced the
\* result set first, then invoked the pre-scan hook once for each mapped
\* column in the order of the result set, up to the first that fails; it has
\* scanned once, and only when every pre-scan hook succeeded; it has then
\* invoked the post-scan hook once for each mapped column in the same order,
\* up to the first that fails, and only when the scan succeeded; the targets
\* handed on are, place by place, those of the fields the columns name, and
\* a row that can be read leaves in each field what its own column held; a
\* failing pre-scan hook leaves the row consumed, nothing scanned and the
\* struct as it was
C28_StepsOfARowInOrder ==
    ReadOneRow =>
        LET rb    == out.rowsBefore
            row   == rb.data[rb.pos + 1]
            names == MappedNames(dst.type, rb.columns)
            f     == FailingHook(dst.type, registry, rb.columns, row)
            scanFails == FailingAt("scan", dst.type, registry, rb.columns, row) # {}
        IN  /\ \E p \in 0..Len(names), q \in 0..Len(names), scanned \in BOOLEAN :
                  /\ out.log = Steps(names, p, scanned, q)
                  /\ scanned <=> f.hook # "PreRead"
                  /\ scanned => p = Len(names)
                  /\ ~scanned =>
                        /\ out.err # NoErr
                        /\ dst.v = out.before
                        /\ rows.pos = rb.pos + 1
                        /\ names[p] = rb.columns[f.k]
                  /\ (scanned /\ scanFails) => (q = 0 /\ out.err # NoErr)
                  /\ (scanned /\ ~scanFails) =>
                        /\ Len(out.targets) = Len(rb.columns)
                        /\ \A k \in 1..Len(rb.columns) :
                              out.targets[k].index = FieldFor(dst.type, rb.columns[k])
                        /\ q = IF f.hook = "PostRead"
                               THEN Cardinality({j \in MappedColumns(dst.type, rb.columns) :
                                                    j <= f.k})
                               ELSE Len(names)
            /\ RowOk(dst.type, registry, rb.columns, row) =>
                  dst.v = Materialized(dst.type, registry, rb.columns, row, out.before)

\* a row of six columns, one of them without a field, has been read: five
\* pre-scan hooks, the scan, five post-scan hooks
C28_Witness ==
    /\ ReadOneRow /\ out.err = NoErr /\ out.rowsBefore.columns = WideColumns
    /\ out.log = Steps(<<"id", "age", "closed", "note", "updated">>, 5, TRUE, 5)
    /\ out.targets[2].index = 0 /\ out.targets[3].index = 2

\* the pre-scan hook of the second column failed: the row is consumed and
\* nothing was scanned
C28_PreScanFailureWitness ==
    /\ ReadOneRow /\ out.op = "Scan"
    /\ out.log = Steps(<<"id", "closed">>, 2, FALSE, 0)
    /\ rows.pos = out.rowsBefore.pos + 1 /\ dst.v = out.before

\* the scan failed after every pre-scan hook: no post-scan hook was invoked
C28_ScanFailureWitness ==
    /\ ReadOneRow /\ out.err # NoErr
    /\ out.log = Steps(<<"id", "age">>, 2, TRUE, 0)

----------------------------------------------------------------------------
(* PermStmtCache: stmtcache.go.  stmtCache is the cache [db, cache]: whether *)
(* its db is a handle, and its map from query to statement.  db is what the  *)
(* database has seen: the calls of Prepare with their outcome, the          *)
(* statements run, and the queries run without a statement.                 *)

\* the queries of a program
Queries == {"select", "update"}

\* NewPermStmtCache(db): hasDb is whether db is a handle and not nil
NewPermStmtCache(hasDb) == [db |-> hasDb, cache |-> EmptyMap]

\* the database before any call
NoStatements == [prepares |-> <<>>, runs |-> <<>>, direct |-> <<>>]

\* the statement the database makes of the n-th call of Prepare
Stmt(query, n) == [query |-> query, id |-> n]
NoStmt == [query |-> "", id |-> 0]

\* what PrepareStmtForQuery returns and leaves behind
Prepared(stmt, err, sc, d) == [stmt |-> stmt, err |-> err, sc |-> sc, db |-> d]

\* the cache is not looked at, and its entry is replaced
PrepareStmtForQueryAfresh(sc, d, query, ok) ==
    IF ~sc.db
    THEN Prepared(NoStmt, Errorf("143766254 PrepareQueryStr sc.db must not be nil", "", ""),
                  sc, d)
    ELSE IF ~ok
    THEN Prepared(NoStmt,
                  Errorf("143766255 PrepareQueryStr sc.db.Prepare failure", "", query),
                  sc, [d EXCEPT !.prepares = Append(@, [query |-> query, ok |-> FALSE])])
    ELSE Prepared(Stmt(query, Len(d.prepares) + 1), NoErr,
                  [sc EXCEPT !.cache = MapPut(@, query, Stmt(query, Len(d.prepares) + 1))],
                  [d EXCEPT !.prepares = Append(@, [query |-> query, ok |-> TRUE])])

\* sc.PrepareStmtForQuery(query), where ok is whether the database can
\* prepare the query
PrepareStmtForQuery(sc, d, query, ok) ==
    IF query \in DOMAIN sc.cache
    THEN Prepared(sc.cache[query], NoErr, sc, d)
    ELSE IF ~sc.db
    THEN Prepared(NoStmt, Errorf("143766254 PrepareQueryStr sc.db must not be nil", "", ""),
                  sc, d)
    ELSE IF ~ok
    THEN Prepared(NoStmt,
                  Errorf("143766255 PrepareQueryStr sc.db.Prepare failure", "", query),
                  sc, [d EXCEPT !.prepares = Append(@, [query |-> query, ok |-> FALSE])])
    ELSE Prepared(Stmt(query, Len(d.prepares) + 1), NoErr,
                  [sc EXCEPT !.cache = MapPut(@, query, Stmt(query, Len(d.prepares) + 1))],
                  [d EXCEPT !.prepares = Append(@, [query |-> query, ok |-> TRUE])])

\* sc.Exec and sc.Query once PrepareStmtForQuery has returned p: the
\* statement is run, and runs is whether the database can run it
RunPrepared(p, fn, runs) ==
    IF p.err # NoErr
    THEN [p EXCEPT !.err = Errorf("PrepareStmtForQuery failure for query", "", p.err.msg)]
    ELSE [p EXCEPT !.db.runs = Append(@, [fn |-> fn, stmt |-> p.stmt]),
                   !.err = IF runs THEN NoErr
                           ELSE Errorf("stmt.Exec failure for query", "", p.stmt.query)]

\* sc.QueryRow once PrepareStmtForQuery has returned p: a query is run
\* without a statement when there is none; the row holds the error
QueryRowPrepared(p, query, runs) ==
    IF p.err # NoErr
    THEN [p EXCEPT !.db.direct = Append(@, query),
                   !.err = IF runs THEN NoErr ELSE Errorf("sql: row error", "", query)]
    ELSE [p EXCEPT !.db.runs = Append(@, [fn |-> "QueryRow", stmt |-> p.stmt]),
                   !.err = IF runs THEN NoErr ELSE Errorf("sql: row error", "", query)]

\* the numbers of calls made on a cache before a call
StmtCounts == {0, 1, 2, 3}

\* before any call
NoStmtCall ==
    [op |-> "init", query |-> "", err |-> NoErr, stmt |-> NoStmt, calls |-> 0]

\* what the call op(query) that returned p leaves in out
StmtCalled(op, query, p) ==
    [op |-> op, query |-> query, err |-> p.err, stmt |-> p.stmt, calls |-> out.calls + 1]

InitStmt ==
    /\ decl = [t \in TypeIds |-> Person]
    /\ registry = BuiltinRegistry
    /\ fieldsCache = EmptyMap
    /\ ret = NoCall
    /\ gor = [g \in Callers |-> Idle]
    /\ crashed = FALSE
    /\ rows = <<>>
    /\ dst = <<>>
    /\ out = NoStmtCall
    /\ hook = <<>>
    /\ db = NoStatements
    /\ stmtCache \in {NewPermStmtCache(hasDb) : hasDb \in BOOLEAN}

\* what a call on the cache leaves alone
StmtFrame == UNCHANGED <<decl, registry, fieldsCache, ret, gor, rows, dst, hook>>

\* a call has returned p
StmtReturned(op, query, p) ==
    /\ stmtCache' = p.sc
    /\ db' = p.db
    /\ out' = StmtCalled(op, query, p)
    /\ UNCHANGED crashed
    /\ StmtFrame

\* stmt, err := sc.PrepareStmtForQuery(query)
CallPrepareStmtForQuery(query, ok) ==
    /\ ~crashed /\ out.calls \in StmtCounts
    /\ StmtReturned("PrepareStmtForQuery", query,
                    PrepareStmtForQuery(stmtCache, db, query, ok))

\* result, err := sc.Exec(query)
CallExec(query, ok, runs) ==
    /\ ~crashed /\ out.calls \in StmtCounts
    /\ StmtReturned("Exec", query,
                    RunPrepared(PrepareStmtForQuery(stmtCache, db, query, ok), "Exec", runs))

\* rows, err := sc.Query(query)
CallQuery(query, ok, runs) ==
    /\ ~crashed /\ out.calls \in StmtCounts
    /\ StmtReturned("Query", query,
                    RunPrepared(PrepareStmtForQuery(stmtCache, db, query, ok), "Query", runs))

\* row := sc.QueryRow(query), on a cache with a handle or with a statement
\* for the query
CallQueryRow(query, ok, runs) ==
    /\ ~crashed /\ out.calls \in StmtCounts
    /\ stmtCache.db \/ query \in DOMAIN stmtCache.cache
    /\ StmtReturned("QueryRow", query,
                    QueryRowPrepared(PrepareStmtForQuery(stmtCache, db, query, ok),
                                     query, runs))

\* row := sc.QueryRow(query) on a cache without handle: sc.db.QueryRow
\* dereferences the nil handle, and the program panics
CallQueryRowNoDb(query) ==
    /\ ~crashed /\ out.calls \in StmtCounts
    /\ ~stmtCache.db /\ query \notin DOMAIN stmtCache.cache
    /\ crashed' = TRUE
    /\ out' = [out EXCEPT !.op = "QueryRow", !.query = query, !.calls = @ + 1]
    /\ UNCHANGED <<stmtCache, db>>
    /\ StmtFrame

NextStmt ==
    \/ \E query \in Queries, ok \in BOOLEAN : CallPrepareStmtForQuery(query, ok)
    \/ \E query \in Queries, ok \in BOOLEAN, runs \in BOOLEAN : CallExec(query, ok, runs)
    \/ \E query \in Queries, ok \in BOOLEAN, runs \in BOOLEAN : CallQuery(query, ok, runs)
    \/ \E query \in Queries, ok \in BOOLEAN, runs \in BOOLEAN : CallQueryRow(query, ok, runs)
    \/ \E query \in Queries : CallQueryRowNoDb(query)

SpecStmt == InitStmt /\ [][NextStmt]_vars

\* the calls of Prepare for a query that succeeded, by the record of the
\* database d
SuccessfulPrepares(d, query) ==
    {i \in 1..Len(d.prepares) : d.prepares[i].query = query /\ d.prepares[i].ok}

\* a step of a call on the cache, for the query of the call
StmtCacheStep ==
    LET q   == out'.query
        hit == q \in DOMAIN stmtCache.cache
    IN  \* entries are neither removed nor replaced
        /\ \A x \in DOMAIN stmtCache.cache :
              x \in DOMAIN stmtCache'.cache /\ stmtCache'.cache[x] = stmtCache.cache[x]
        \* no query has been prepared with success more than once
        /\ \A x \in Queries : Cardinality(SuccessfulPrepares(db', x)) <= 1
        \* a cached query: nothing is prepared, and its statement is the one
        \* returned and run
        /\ hit =>
              /\ db'.prepares = db.prepares
              /\ out'.stmt = stmtCache.cache[q]
              /\ out'.op # "PrepareStmtForQuery" =>
                    db'.runs = Append(db.runs, [fn |-> out'.op, stmt |-> stmtCache.cache[q]])
        \* a query that is not cached, on a cache with a handle: Prepare is
        \* called for it, and it is cached exactly when Prepare succeeds
        /\ (~hit /\ stmtCache.db) =>
              /\ Len(db'.prepares) = Len(db.prepares) + 1
              /\ db'.prepares[Len(db'.prepares)].query = q
              /\ IF db'.prepares[Len(db'.prepares)].ok
                 THEN stmtCache'.cache = MapPut(stmtCache.cache, q, out'.stmt)
                 ELSE stmtCache'.cache = stmtCache.cache
        \* on a cache without handle: nothing is prepared and nothing cached
        /\ (~hit /\ ~stmtCache.db) =>
              /\ stmtCache' = stmtCache /\ db'.prepares = db.prepares
              /\ ~crashed' => out'.err # NoErr

\* C29: in every sequence of calls of PrepareStmtForQuery, Exec, Query and
\* QueryRow on one PermStmtCache, no query is prepared with success more
\* than once; a call for a cached query prepares nothing and uses the cached
\* statement; a call for a query that is not cached calls Prepare again, and
\* a Prepare that fails, or a cache without database handle, adds no entry;
\* no entry is ever removed or replaced
C29_PreparedAtMostOnce == [][StmtCacheStep]_vars

\* a query whose first Prepare failed was prepared by the next call and run
\* twice with the one statement
C29_Witness ==
    /\ out.op \in {"Exec", "Query", "QueryRow"} /\ out.calls = 3
    /\ Len(db.prepares) = 2 /\ ~db.prepares[1].ok /\ db.prepares[2].ok
    /\ db.prepares[1].query = db.prepares[2].query
    /\ Len(db.runs) = 2 /\ db.runs[1].stmt = db.runs[2].stmt
    /\ stmtCache.cache[out.query] = db.runs[2].stmt

\* a call on a cache without database handle returned an error and cached
\* nothing
C29_NoDbWitness ==
    /\ out.op = "Exec" /\ out.calls = 2 /\ ~stmtCache.db /\ out.err # NoErr
    /\ stmtCache.cache = EmptyMap /\ db.prepares = <<>>

====
